---- MODULE Spec2Model ----
(***************************************************************************)
(* A model of the operational core of the Telegram group scanner:          *)
(*   - CommandInterface (command_interface.py): the STOPPED / RUNNING /    *)
(*     PAUSED / ERROR machine, its command lock and its command results;   *)
(*   - GroupScanner (scanner.py): start_monitoring, stop_monitoring, the   *)
(*     new-message handlers, the message queue and the worker tasks.       *)
(* Each specification below drives one group of variables and leaves the   *)
(* other groups at their initial values.                                   *)
(***************************************************************************)
EXTENDS Integers, Sequences, FiniteSets, TLC

\* ------------------------------------------------------------- bounds
\* Number of tasks issuing commands concurrently.
NumCallers == 2
\* Largest number of groups a discovery returns.
MaxGroups == 2
\* Number of new-message events the client delivers.
MaxEvents == 2
\* Registrations of new_message_handler after which no start/resume is issued.
MaxHandlers == 2
\* Number of SessionExpiredError a run raises inside handle_new_message.
MaxExpiries == 1

\* Largest max_retries an ErrorHandler is configured or called with.
MaxRetries == 2

\* Number of tasks calling store_message concurrently.
NumStorers == 2
\* Number of store_message calls of a run.
MaxStores == 2

\* Number of tasks calling RateLimiter.acquire concurrently.
NumAcquirers == 2
\* Largest requests_per_minute a RateLimiter is built with.
MaxRpm == 2
\* Number of acquire calls of a run.
MaxAcquires == 4
\* The clock stops after this many ticks.
MaxClock == 6
\* The consecutive failures recorded and the clock readings of the
\* HealthMonitor.
MaxFailures == 11
MaxHealthClock == 3
\* The keywords and patterns of a configuration and the characters of a
\* message content.
MaxKeywords == 2
MaxPatterns == 2
MaxContent == 2
\* The groups a discovery has found and the direct calls of start_monitoring
\* and stop_monitoring.
MaxDiscovered == 4
MaxCalls == 3
\* The groups an account has and the discover_groups calls made.
MaxDialogGroups == 2
MaxDiscoveries == 2
\* The groups update_message_stats is called for directly and the calls made.
MaxStatGroups == 2
MaxUpdates == 3
\* record_failure's thresholds.
DegradedAt == 5
UnhealthyAt == 10

\* ---------------------------------------------------- program constants
\* scanner.py:421  num_workers = min(3, len(self._discovered_groups))
MaxWorkers == 3
\* scanner.py:59  self.error_handler = ErrorHandler(max_retries=3)
ScannerRetries == 3

\* error_handling.py:42  base_delay: float = 1.0, in half seconds
BaseDelay == 2
\* error_handling.py:53  flood_wait_multiplier: float = 1.5, in half seconds per second
FloodWaitMultiplier == 3

\* storage.py:35  ErrorHandler(max_retries=3)
StoreRetries == 3
\* storage.py:127  _persist_with_retry(self, max_retries: int = 3)
PersistAttempts == 3

\* error_handling.py:233  cutoff = now - 60, in ticks of 20 seconds
Window == 3

Callers == 1..NumCallers
Commands == {"start", "stop", "pause", "resume"}

Min(a, b) == IF a < b THEN a ELSE b

VARIABLES
    \* CommandInterface
    state,        \* self._state
    lastError,    \* self._last_error: "none" or the command whose failure it records
    lockHolder,   \* self._command_lock: 0 (free) or the caller inside `async with`
    pc,           \* per caller: idle | wait | init | mon | gather
    cmd,          \* per caller: the command in flight ("none" when idle)
    seen,         \* self._state as read by the state check of the command in progress
    lastRes,      \* the result dict of the command that finished last
    \* GroupScanner
    groups,       \* len(self._discovered_groups)
    monitoring,   \* self._monitoring
    handlers,     \* new_message_handler closures registered on the client
    queue,        \* self._message_queue: the number of messages it holds
    tasks,        \* self._processing_tasks, each [st, cancel]
    \* environment and history
    delivered,    \* new-message events of monitored groups the client dispatched
    expiries,     \* SessionExpiredError raised so far
    sinceExpiry,  \* a session expired and no command has returned since
    failedAt,     \* messages delivered when a handling first failed, or 0
    replay,       \* the state obtained by replaying the finished commands on the table
    batch,        \* per caller: its command belongs to the current batch of starts
    batchIssued,  \* starts issued while STOPPED since the batch began
    batchDone,    \* ... of which have returned
    batchOk,      \* ... of which have returned success=True
    \* ErrorHandler.with_retry, one call
    rtMax,        \* self.max_retries
    rtArg,        \* the max_retries argument: None or a number
    rtExp,        \* the exponential_backoff argument
    rtPlan,       \* failures of the operation before it succeeds (its behaviour)
    rtFails,      \* ... of which are still to come
    rtPc,         \* idle | call | sleep | done
    rtAttempt,    \* the loop variable `attempt`
    rtCalls,      \* invocations of func so far
    rtDelay,      \* the delay of the sleep in progress, in half seconds
    rtSleeps,     \* the sleeps so far, each [after |-> attempt, delay]
    rtLog,        \* the statuses appended to self.operation_logs[operation_name]
    rtOutcome,    \* none | returned | the name of the error raised
    rtLastKind,   \* the class of the last error the operation raised, or none
    rtSecs,       \* e.seconds of the last error if it was a FloodWaitError, else 0
    \* StorageManager
    stData,       \* self._data
    stHashes,     \* self.duplicate_hashes
    stLock,       \* self._lock: 0 (free) or the task inside `async with`
    stFile,       \* the storage file on disk: NoFile or [list, complete]
    stBackup,     \* its .backup file
    stPc,         \* per task: idle | lock | rename | write | unlink | psleep | restore | retry
    stMsg,        \* per task: the message_data of its store_message call
    stAttempt,    \* per task: `attempt` of _persist_with_retry
    stTry,        \* per task: `attempt` of the with_retry around _store_impl
    stDup,        \* per task: the key of its message was stored when it called
    stLast,       \* the call that ended last: [res, dup, msg]
    stCalls,      \* store_message calls so far
    stGood,       \* a persist has completed: a complete file has been on disk
    stOverlap,    \* a store_message call was made while another was in progress
    stHist,       \* the keys asked for, the True returns per key, whether a
                  \* call was cancelled, and the storage file as the running
                  \* persist found it
    \* GroupScanner called directly, without the CommandInterface
    smPc,         \* the caller of stop_monitoring: "idle" or "gather"
    smStarts,     \* start_monitoring calls made
    smStops,      \* stop_monitoring calls made
    \* GroupScanner.discover_groups
    dgPc,         \* idle | direct | dialogs | backoff
    dgSel,        \* config.selected_groups, each name by the group it denotes
    dgDialogs,    \* the groups among the account's dialogs
    dgTodo,       \* the selected names the direct search has not tried yet
    dgIter,       \* the dialogs iter_dialogs has not yielded yet
    dgSeen,       \* selected_groups_found
    dgLocal,      \* the local list discovered_groups of _discover_groups_impl
    dgDiscovered, \* self._discovered_groups
    dgTry,        \* with_retry's attempt of _discover_groups_impl
    dgResult,     \* how the last discover_groups ended: [kind, list, by]
    dgRuns,       \* discover_groups calls made
    \* CommandInterface: the message statistics
    msProcessed,  \* self._messages_processed
    msRelevant,   \* self._relevant_messages_found
    msGroup,      \* self._group_stats: per group id its messages_processed and
                  \* relevant_messages
    msCalls,      \* update_message_stats calls made
    \* RelevanceFilter and the message it is given
    flKeywords,   \* config.keywords
    flPatterns,   \* config.regex_patterns
    flOperator,   \* config.logic_operator
    flCompiled,   \* self._compiled_patterns: its keys in insertion order
    flContent,    \* message.content (None and '' are both the empty string)
    flExtracted,  \* message.extracted_text (likewise)
    flResult,     \* what is_relevant returned: "none", "True" or "False"
    flMatched,    \* message.matched_criteria
    flScore,      \* message.relevance_score, as numerator and denominator
    flLast,       \* self._last_matched_keywords
    \* HealthMonitor
    hmFailures,   \* self.consecutive_failures
    hmStatus,     \* self.health_status
    hmLast,       \* self.last_successful_operation
    hmNow,        \* time.time()
    hmRun,        \* the record_failure calls made since the last record_success
    hmCall,       \* the last call: its method and the status it found
    \* RateLimiter
    lmRpm,        \* self.requests_per_minute
    lmTimes,      \* self.request_times
    lmLock,       \* self._lock: 0 (free) or the task inside `async with`
    lmPc,         \* per task: idle | lock | sleep
    lmWake,       \* per task: the time its asyncio.sleep is over
    lmSeen,       \* per task: request_times as it left them when it went to sleep
    lmLast,       \* how the last acquire ended: none | direct | waited | raised
    lmCalls,      \* acquire calls so far
    clock,        \* time.time(), in ticks
    \* status queries
    lastStatus,   \* what the last get_status returned, and whether a command
                  \* was inside the lock when it returned
    \* a second StorageManager on the same storage file
    ldPc,         \* new | sleep | ready: its initialize()
    ldTry,        \* with_retry's attempt of _initialize_impl
    ldData,       \* its _data
    ldHashes      \* its duplicate_hashes

ciVars == <<state, lastError, lockHolder, pc, cmd, seen, lastRes>>
gsVars == <<groups, monitoring, handlers, queue, tasks>>
evVars == <<delivered, expiries, sinceExpiry, failedAt>>
batchVars == <<batch, batchIssued, batchDone, batchOk>>
mainVars == <<ciVars, gsVars, evVars, replay, batchVars>>

retryVars == <<rtMax, rtArg, rtExp, rtPlan, rtFails, rtPc, rtAttempt, rtCalls,
               rtDelay, rtSleeps, rtLog, rtOutcome, rtLastKind, rtSecs>>

storeVars == <<stData, stHashes, stLock, stFile, stBackup, stPc, stMsg,
               stAttempt, stTry, stDup, stLast, stCalls, stGood, stOverlap, stHist>>

limiterVars == <<lmRpm, lmTimes, lmLock, lmPc, lmWake, lmSeen, lmLast, lmCalls, clock>>

statusVars == <<lastStatus>>

reloadVars == <<ldPc, ldTry, ldData, ldHashes>>

healthVars == <<hmFailures, hmStatus, hmLast, hmNow, hmRun, hmCall>>

scanVars == <<smPc, smStarts, smStops>>

discCallVars == <<dgPc, dgSel, dgDialogs, dgTodo, dgIter, dgSeen, dgLocal, dgTry,
                  dgResult, dgRuns>>
discVars == <<discCallVars, dgDiscovered>>

statsVars == <<msProcessed, msRelevant, msGroup, msCalls>>

filterVars == <<flKeywords, flPatterns, flOperator, flCompiled, flContent,
                flExtracted, flResult, flMatched, flScore, flLast>>

\* The variables the commands and the scanner leave alone.
offWorker == <<retryVars, storeVars, limiterVars, statusVars, reloadVars, healthVars, filterVars, scanVars, discVars>>
offMain == <<offWorker, statsVars>>

\* The variables with_retry leaves alone.
offRetry == <<mainVars, storeVars, limiterVars, statusVars, reloadVars, healthVars, filterVars, scanVars, discVars, statsVars>>

\* The variables the StorageManager leaves alone.
offStore == <<mainVars, retryVars, limiterVars, statusVars, reloadVars, healthVars, filterVars, scanVars, discVars, statsVars>>

\* The variables the RateLimiter leaves alone.
offLimiter == <<mainVars, retryVars, storeVars, statusVars, reloadVars, healthVars, filterVars, scanVars, discVars, statsVars>>

\* ---------------------------------------------- the transition table
\* The table of valid transitions the commands are specified by; `replay`
\* follows it, independently of the commands' code.
TableValid(k, s) ==
    CASE k = "start" -> s = "stopped"
      [] k = "stop" -> s \in {"running", "paused", "error"}
      [] k = "pause" -> s = "running"
      [] k = "resume" -> s = "paused"

TableTarget(k) ==
    CASE k = "start" -> "running"
      [] k = "stop" -> "stopped"
      [] k = "pause" -> "paused"
      [] k = "resume" -> "running"

TableNext(k, s) == IF TableValid(k, s) THEN TableTarget(k) ELSE s

\* ------------------------------------------------------------ results
NoRes == [cmd |-> "none", before |-> "stopped", success |-> FALSE,
          state |-> "stopped", raised |-> FALSE]

\* The dict a command returns: "success" and "state" (self._state.value at the
\* return); before and raised are history, for the claims.
Result(k, b, ok, s, r) ==
    [cmd |-> k, before |-> b, success |-> ok, state |-> s, raised |-> r]

\* ------------------------------------------------- CommandInterface
\* The state check that opens each command.
\* (variant: start also accepted while RUNNING)
StartAcceptsRunning(s) == s \in {"stopped", "running"}

\* (variant: start also accepted in ERROR)
StartAcceptsError(s) == s \in {"stopped", "error"}

StartAccepts(s) == s = "stopped"

StopAccepts(s) == s # "stopped"

\* (variant: pause with the check of stop)
PauseAcceptsAsStop(s) == s # "stopped"

PauseAccepts(s) == s = "running"

ResumeAccepts(s) == s = "paused"

Accepts(k, s) ==
    CASE k = "start" -> StartAccepts(s)
      [] k = "stop" -> StopAccepts(s)
      [] k = "pause" -> PauseAccepts(s)
      [] k = "resume" -> ResumeAccepts(s)

\* The state a command assigns when its body completes.
SuccessState(k) ==
    CASE k = "start" -> "running"
      [] k = "stop" -> "stopped"
      [] k = "pause" -> "paused"
      [] k = "resume" -> "running"

\* (variant: the except branch leaves the state alone)
FailureStateKept(k, s) == s

\* (variant: every except branch assigns ERROR)
FailureStateError(k, s) == "error"

\* The state after a command's `except Exception` branch.
FailureState(k, s) == IF k \in {"start", "resume"} THEN "error" ELSE s

\* The errors the scanner's operations raise inside a command: ValueError from
\* start_monitoring, RecursionError from Task.cancel on a hung task, and the
\* client library's errors.  (A cancellation of the command's own task is the
\* caller's doing, not an operation's.)
Raised == {"ValueError", "RecursionError", "RPCError"}

\* (variant: the except clause names ValueError only)
CaughtValueError(e) == e = "ValueError"

\* `except Exception`: everything but the BaseException-only classes.
Caught(e) == e \notin {"CancelledError", "KeyboardInterrupt", "SystemExit"}

\* What a caller gets when an error leaves a command: no dict.
Escaped(k, b) ==
    [cmd |-> k, before |-> b, success |-> FALSE, state |-> "escaped", raised |-> TRUE]

\* (variant: no command lock)
LockAlwaysFree == TRUE

\* asyncio.Lock: `async with self._command_lock` enters only when unlocked.
LockFree == lockHolder = 0

get_current_state == state

get_status == [state |-> state, last_error |-> lastError, groups_monitored |-> groups]

\* ----------------------------------------------------- GroupScanner
\* The scanner is modelled from a constructed object on.  Its constructor
\* (scanner.py:63-67) passes default_delay and max_wait_time to RateLimiter,
\* whose __init__ (error_handling.py:221) takes requests_per_minute only, so
\* with the RateLimiter of this repository the construction raises TypeError.
Worker(s, c) == [st |-> s, cancel |-> c]

NewWorkers(n) == [i \in 1..n |-> Worker("wait", FALSE)]

NumWorkers(g) == Min(MaxWorkers, g)

Done(t) == t.st = "done"

\* A task that awaits the gather of its own task: it never completes.
Hung(t) == t.st = "hung"

\* Index of the first hung task of ts, or 0.
FirstHung(ts) ==
    IF \E i \in 1..Len(ts) : Hung(ts[i])
    THEN CHOOSE i \in 1..Len(ts) : Hung(ts[i]) /\ \A j \in 1..(i - 1) : ~Hung(ts[j])
    ELSE 0

\* `for task in self._processing_tasks: if not task.done(): task.cancel()`,
\* run by task `self` (0: by a command).  Task.cancel() on a hung task recurses
\* through the gather it awaits (gather.cancel -> child.cancel -> ...) and
\* raises RecursionError, which ends the loop at that task.
CancelAll(ts, self) ==
    LET h == FirstHung(ts)
        last == IF h = 0 THEN Len(ts) ELSE h - 1
    IN [i \in 1..Len(ts) |->
          IF i <= last /\ i # self /\ ~Done(ts[i])
          THEN [ts[i] EXCEPT !.cancel = TRUE]
          ELSE ts[i]]

\* start_monitoring() past its authentication check: the monitoring flag, the
\* handler registration and the workers.
StartMonitoringNoop == monitoring \/ groups = 0

StartMonitoring ==
    IF StartMonitoringNoop
    THEN UNCHANGED <<monitoring, handlers, tasks>>
    ELSE /\ monitoring' = TRUE
         /\ handlers' = handlers + 1
         /\ tasks' = tasks \o NewWorkers(NumWorkers(groups))

\* A worker whose loop ends after one pass whatever the monitoring flag says.
LoopNever == Worker("done", FALSE)

\* The worker's `while self._monitoring` test after one pass of its loop.
LoopAgain == IF monitoring THEN Worker("wait", FALSE) ELSE Worker("done", FALSE)

\* ------------------------------------------------ command actions
\* A batch is the set of start commands that meet the state STOPPED together:
\* those issued while it is STOPPED, and those already waiting when it becomes
\* STOPPED.  It ends when a stop, pause or resume succeeds or a command raises.
BatchJoin(c, k) ==
    IF k = "start" /\ state = "stopped"
    THEN /\ batch' = [batch EXCEPT ![c] = TRUE]
         /\ batchIssued' = batchIssued + 1
         /\ UNCHANGED <<batchDone, batchOk>>
    ELSE UNCHANGED batchVars

BatchReturn(c, ok) ==
    IF batch[c]
    THEN /\ batch' = [batch EXCEPT ![c] = FALSE]
         /\ batchDone' = batchDone + 1
         /\ batchOk' = batchOk + (IF ok THEN 1 ELSE 0)
         /\ UNCHANGED batchIssued
    ELSE UNCHANGED batchVars

\* Caller c's command ends the batch and leaves the state s.
BatchEnd(c, s) ==
    LET waiting == {d \in Callers \ {c} :
                      pc[d] = "wait" /\ cmd[d] = "start" /\ s = "stopped"}
    IN /\ batch' = [d \in Callers |-> d \in waiting]
       /\ batchIssued' = Cardinality(waiting)
       /\ batchDone' = 0
       /\ batchOk' = 0

\* Start and resume commands in flight: each may register one more handler.
Pending == Cardinality({d \in Callers : cmd[d] \in {"start", "resume"}})

\* A caller invokes a command; it then waits for the command lock.
Issue(c) ==
    /\ pc[c] = "idle"
    /\ \E k \in Commands :
         /\ k \in {"start", "resume"} => handlers + Pending < MaxHandlers
         /\ cmd' = [cmd EXCEPT ![c] = k]
         /\ BatchJoin(c, k)
    /\ pc' = [pc EXCEPT ![c] = "wait"]
    /\ UNCHANGED <<state, lastError, lockHolder, seen, lastRes>>
    /\ UNCHANGED <<gsVars, evVars, replay>>
    /\ UNCHANGED offMain

\* The command returns to its caller: the lock is released.
Return(c) ==
    /\ lockHolder' = 0
    /\ pc' = [pc EXCEPT ![c] = "idle"]
    /\ cmd' = [cmd EXCEPT ![c] = "none"]
    /\ sinceExpiry' = FALSE

\* The command takes the lock and its state check fails: it returns
\* success=False with the state unchanged.
CmdRejected(c) ==
    /\ pc[c] = "wait"
    /\ LockFree
    /\ ~Accepts(cmd[c], state)
    /\ seen' = state
    /\ lastRes' = Result(cmd[c], state, FALSE, state, FALSE)
    /\ Return(c)
    /\ replay' = TableNext(cmd[c], replay)
    /\ BatchReturn(c, FALSE)
    /\ UNCHANGED <<state, lastError, gsVars, delivered, expiries, failedAt>>
    /\ UNCHANGED offMain

\* start_scanning passes its check and awaits initialize / authenticate /
\* discover_groups; resume_scanning passes its check and awaits
\* start_monitoring's ensure_authenticated.
StartBegin(c) ==
    /\ pc[c] = "wait"
    /\ LockFree
    /\ cmd[c] \in {"start", "resume"}
    /\ Accepts(cmd[c], state)
    /\ lockHolder' = c
    /\ seen' = state
    /\ pc' = [pc EXCEPT ![c] = IF cmd[c] = "start" THEN "init" ELSE "mon"]
    /\ UNCHANGED <<state, lastError, cmd, lastRes>>
    /\ UNCHANGED <<gsVars, evVars, replay, batchVars>>
    /\ UNCHANGED offMain

\* An operation raises inside a command's try block.  The `except Exception`
\* branch records the error, sets the state as the branch sets it and returns
\* the failure result; an error the clause does not catch leaves the command
\* through `async with`, which releases the lock.
CmdFails(c) ==
    \E e \in Raised :
       IF Caught(e)
       THEN /\ state' = FailureState(cmd[c], state)
            /\ lastError' = cmd[c]
            /\ lastRes' = Result(cmd[c], state, FALSE, FailureState(cmd[c], state), TRUE)
            /\ Return(c)
            /\ replay' = FailureState(cmd[c], state)
            /\ BatchEnd(c, FailureState(cmd[c], state))
       ELSE /\ UNCHANGED <<state, lastError>>
            /\ lastRes' = Escaped(cmd[c], state)
            /\ Return(c)
            /\ replay' = state
            /\ BatchEnd(c, state)

\* The tail of a command's try block: the state assignment and the success result.
CmdSucceeds(c) ==
    /\ state' = SuccessState(cmd[c])
    /\ lastError' = "none"
    /\ lastRes' = Result(cmd[c], state, TRUE, SuccessState(cmd[c]), FALSE)
    /\ Return(c)
    /\ replay' = TableNext(cmd[c], replay)
    /\ IF cmd[c] = "start"
       THEN BatchReturn(c, TRUE)
       ELSE BatchEnd(c, SuccessState(cmd[c]))

\* A list of n groups.
GroupList(n) == [i \in 1..n |-> i]

\* start_scanning: initialize, authenticate, discover_groups when no group is
\* known yet, and scan_history; any of them may raise.  scan_history returns
\* None, so no history total is added to the message counters.
StartDiscover(c) ==
    /\ pc[c] = "init"
    /\ \/ /\ \E n \in 0..MaxGroups :
               groups' = IF groups = 0 THEN n ELSE groups
          /\ pc' = [pc EXCEPT ![c] = "mon"]
          /\ UNCHANGED <<state, lastError, lockHolder, cmd, lastRes, replay, batchVars>>
          /\ UNCHANGED sinceExpiry
       \/ /\ CmdFails(c)
          /\ UNCHANGED groups
    /\ dgDiscovered' = GroupList(groups')
    /\ UNCHANGED <<seen, monitoring, handlers, queue, tasks, delivered, expiries, failedAt>>
    /\ UNCHANGED <<retryVars, storeVars, limiterVars, statusVars, reloadVars, healthVars,
                   filterVars, scanVars, discCallVars, statsVars>>

\* start_scanning / resume_scanning: start_monitoring() returns and the
\* command completes, or start_monitoring raises (not authenticated, no client).
MonitorStep(c) ==
    /\ pc[c] = "mon"
    /\ \/ /\ StartMonitoring
          /\ CmdSucceeds(c)
       \/ /\ CmdFails(c)
          /\ UNCHANGED <<monitoring, handlers, tasks>>
    /\ UNCHANGED <<seen, groups, queue, delivered, expiries, failedAt>>
    /\ UNCHANGED offMain

\* stop_scanning / pause_scanning up to their first suspension.  Not
\* monitoring: the command completes at once.  Monitoring: stop_monitoring
\* clears the flag and cancels the tasks, then awaits their gather; a hung
\* task in the list makes its cancel() raise, and the command fails.
StopBegin(c) ==
    /\ pc[c] = "wait"
    /\ LockFree
    /\ cmd[c] \in {"stop", "pause"}
    /\ Accepts(cmd[c], state)
    /\ seen' = state
    /\ IF ~monitoring
       THEN /\ CmdSucceeds(c)
            /\ UNCHANGED <<monitoring, tasks>>
       ELSE /\ monitoring' = FALSE
            /\ tasks' = CancelAll(tasks, 0)
            /\ IF FirstHung(tasks) # 0
               THEN CmdFails(c)
               ELSE /\ lockHolder' = c
                    /\ pc' = [pc EXCEPT ![c] = "gather"]
                    /\ UNCHANGED <<state, lastError, cmd, lastRes, replay, batchVars>>
                    /\ UNCHANGED sinceExpiry
    /\ UNCHANGED <<groups, handlers, queue, delivered, expiries, failedAt>>
    /\ UNCHANGED offMain

\* stop_monitoring after its gather: every task is done; the task list is
\* cleared, the queue drained, and the command completes.
StopFinish(c) ==
    /\ pc[c] = "gather"
    /\ \A i \in 1..Len(tasks) : Done(tasks[i])
    /\ tasks' = <<>>
    /\ queue' = 0
    /\ CmdSucceeds(c)
    /\ UNCHANGED <<seen, groups, monitoring, handlers, delivered, expiries, failedAt>>
    /\ UNCHANGED offMain

\* An Optional[int] argument.
None == [given |-> FALSE, value |-> 0]

Some(r) == [given |-> TRUE, value |-> r]

\* -------------------------------------------------------------- Init
\* No with_retry call is in progress.
RetryIdle ==
    /\ rtMax = 0
    /\ rtArg = None
    /\ rtExp = TRUE
    /\ rtPlan = 0
    /\ rtFails = 0
    /\ rtPc = "idle"
    /\ rtAttempt = 0
    /\ rtCalls = 0
    /\ rtDelay = 0
    /\ rtSleeps = <<>>
    /\ rtLog = <<>>
    /\ rtOutcome = "none"
    /\ rtLastKind = "none"
    /\ rtSecs = 0

Storers == 1..NumStorers

\* message_data: the key fields and stored_at, which stands for every field
\* outside the key ("absent": the caller did not set it).
Ids == {1, 12}
GroupIds == {3, 23}
Contents == {"a", "b"}
\* A datetime object as a field value, named by its repr.
Datetimes == {"datetime(2024, 1, 6, 10, 0)"}

\* "t1": an ISO string set by the caller.
StoredAts == {"absent", "t1"} \cup Datetimes

\* The keys store_message is called with: two that differ in id and group_id,
\* and one that differs from the first in content alone.
Keys == {<<1, 23, "a">>, <<12, 3, "a">>, <<1, 23, "b">>}

Messages ==
    {r \in [id : Ids, group_id : GroupIds, content : Contents, stored_at : StoredAts] :
        <<r.id, r.group_id, r.content>> \in Keys}

\* What a store_message call did: res is "True", "False" or "cancelled".
Ended(res, dup, msg) == [res |-> res, dup |-> dup, msg |-> msg]

NoMsg == [id |-> 0, group_id |-> 0, content |-> "", stored_at |-> "absent"]

\* A path that does not exist.
NoFile == [list |-> <<>>, complete |-> FALSE, exists |-> FALSE]

\* A file holding the JSON text list, whole or cut short.
FileOf(list, whole) == [list |-> list, complete |-> whole, exists |-> TRUE]

\* StorageManager.__init__, with no storage file on disk.
StoreIdle ==
    /\ stData = <<>>
    /\ stHashes = {}
    /\ stLock = 0
    /\ stFile = NoFile
    /\ stBackup = NoFile
    /\ stPc = [c \in Storers |-> "idle"]
    /\ stMsg = [c \in Storers |-> NoMsg]
    /\ stAttempt = [c \in Storers |-> 0]
    /\ stTry = [c \in Storers |-> 0]
    /\ stDup = [c \in Storers |-> FALSE]
    /\ stLast = Ended("none", FALSE, NoMsg)
    /\ stCalls = 0
    /\ stGood = FALSE
    /\ stOverlap = FALSE
    /\ stHist = [asked |-> {}, trues |-> [k \in Keys |-> 0], cancelled |-> FALSE,
                 before |-> NoFile]

Acquirers == 1..NumAcquirers

\* No RateLimiter is built yet (lmRpm = -1).
LimiterIdle ==
    /\ lmRpm = 0 - 1
    /\ lmTimes = <<>>
    /\ lmLock = 0
    /\ lmPc = [c \in Acquirers |-> "idle"]
    /\ lmWake = [c \in Acquirers |-> 0]
    /\ lmSeen = [c \in Acquirers |-> <<>>]
    /\ lmLast = "none"
    /\ lmCalls = 0
    /\ clock = 0

InitCommands ==
    /\ state = "stopped"
    /\ lastError = "none"
    /\ lockHolder = 0
    /\ pc = [c \in Callers |-> "idle"]
    /\ cmd = [c \in Callers |-> "none"]
    /\ seen = "stopped"
    /\ lastRes = NoRes
    /\ groups = 0
    /\ monitoring = FALSE
    /\ handlers = 0
    /\ queue = 0
    /\ tasks = <<>>
    /\ delivered = 0
    /\ expiries = 0
    /\ sinceExpiry = FALSE
    /\ failedAt = 0
    /\ replay = "stopped"
    /\ batch = [c \in Callers |-> FALSE]
    /\ batchIssued = 0
    /\ batchDone = 0
    /\ batchOk = 0

\* No status query was made.
StatusIdle ==
    lastStatus = [called |-> FALSE, busy |-> FALSE,
                  status |-> [state |-> "stopped", last_error |-> "none",
                              groups_monitored |-> 0]]

\* The second StorageManager is constructed and not yet initialized.
ReloadIdle ==
    /\ ldPc = "new"
    /\ ldTry = 0
    /\ ldData = <<>>
    /\ ldHashes = {}

\* The characters of the contents and keywords; strings are sequences of them.
Chars == {"a", "B", " "}

\* Sequences over S of length at most n.
SeqsUpTo(S, n) == UNION {[1..k -> S] : k \in 0..n}

KeywordChoices == {<<"A">>, <<"b">>}

\* Two patterns that compile and one for which re.compile raises re.error.
PatternChoices == {<<"b", "+">>, <<"^", "a">>, <<"[">>}

Operators == {"AND", "OR", "and"}

\* re.compile(pattern, re.IGNORECASE) succeeds.
Compiles(p) == p # <<"[">>

\* _compile_regex_patterns: a dict keyed by pattern, so a pattern listed twice
\* is kept once, at its first place; patterns that do not compile are left out.
RECURSIVE CompilePatterns(_)
CompilePatterns(ps) ==
    IF ps = <<>> THEN <<>>
    ELSE LET rest == CompilePatterns(SubSeq(ps, 1, Len(ps) - 1))
             p == ps[Len(ps)]
         IN IF Compiles(p) /\ ~\E i \in 1..Len(rest) : rest[i] = p
            THEN Append(rest, p)
            ELSE rest

\* RelevanceFilter(config) and a message not yet looked at.
FilterWith(keywords, patterns, operator, content, extracted) ==
    /\ flKeywords = keywords
    /\ flPatterns = patterns
    /\ flOperator = operator
    /\ flCompiled = CompilePatterns(patterns)
    /\ flContent = content
    /\ flExtracted = extracted
    /\ flResult = "none"
    /\ flMatched = <<>>
    /\ flScore = [num |-> 0, den |-> 1]
    /\ flLast = <<>>

\* RelevanceFilter(ScannerConfig()): the default configuration.
FilterIdle == FilterWith(<<>>, <<>>, "OR", <<>>, <<>>)

\* What a discover_groups call returned or raised; `by` is the place it
\* ended at.
NoReturn == [kind |-> "none", list |-> <<>>, by |-> "none"]

\* No discover_groups call has been made.
DiscoverCallIdle ==
    /\ dgPc = "idle"
    /\ dgSel = {}
    /\ dgDialogs = {}
    /\ dgTodo = {}
    /\ dgIter = {}
    /\ dgSeen = {}
    /\ dgLocal = <<>>
    /\ dgTry = 0
    /\ dgResult = NoReturn
    /\ dgRuns = 0

\* GroupScanner.__init__: self._discovered_groups = []
DiscoverIdle ==
    /\ DiscoverCallIdle
    /\ dgDiscovered = <<>>

\* CommandInterface.__init__: the counters are 0 and _group_stats is empty.
StatsIdle ==
    /\ msProcessed = 0
    /\ msRelevant = 0
    /\ msGroup = <<>>
    /\ msCalls = 0

\* No direct call of the GroupScanner has been made.
ScanIdle ==
    /\ smPc = "idle"
    /\ smStarts = 0
    /\ smStops = 0

\* HealthMonitor.__init__
HealthIdle ==
    /\ hmFailures = 0
    /\ hmStatus = "healthy"
    /\ hmLast = 0
    /\ hmNow = 0
    /\ hmRun = 0
    /\ hmCall = [op |-> "none", found |-> "healthy"]

Init ==
    /\ InitCommands
    /\ RetryIdle
    /\ StoreIdle
    /\ LimiterIdle
    /\ StatusIdle
    /\ ReloadIdle
    /\ HealthIdle
    /\ FilterIdle
    /\ ScanIdle
    /\ DiscoverIdle
    /\ StatsIdle

\* ------------------------------------------------- scanner actions
\* The client dispatches a new message of a monitored group: every registered
\* new_message_handler puts it on the queue (handlers are never removed).
DeliverEvent ==
    /\ delivered < MaxEvents
    /\ handlers >= 1
    /\ groups >= 1
    /\ queue' = queue + handlers
    /\ delivered' = delivered + 1
    /\ UNCHANGED <<ciVars, groups, monitoring, handlers, tasks>>
    /\ UNCHANGED <<expiries, failedAt, sinceExpiry, replay, batchVars>>
    /\ UNCHANGED offMain

\* A worker's wait_for(queue.get()) returns a message and the worker calls
\* handle_new_message.  A cancellation requested after the get completed is
\* consumed by wait_for (Python < 3.12), so the flag is cleared.
WorkerDequeue(i) ==
    /\ i \in 1..Len(tasks)
    /\ tasks[i].st = "wait"
    /\ queue > 0
    /\ tasks' = [tasks EXCEPT ![i] = Worker("proc", FALSE)]
    /\ queue' = queue - 1
    /\ UNCHANGED <<ciVars, groups, monitoring, handlers>>
    /\ UNCHANGED <<delivered, expiries, failedAt, sinceExpiry, replay, batchVars>>
    /\ UNCHANGED offMain

\* The cancellation requested by stop_monitoring reaches a suspended worker:
\* CancelledError passes every `except Exception` and the worker breaks.
WorkerCancelled(i) ==
    /\ i \in 1..Len(tasks)
    /\ tasks[i].st \in {"wait", "proc", "store"}
    /\ tasks[i].cancel
    /\ tasks' = [tasks EXCEPT ![i] = Worker("done", FALSE)]
    /\ UNCHANGED <<ciVars, groups, monitoring, handlers, queue>>
    /\ UNCHANGED <<evVars, replay, batchVars>>
    /\ UNCHANGED offMain

\* wait_for times out and the worker finds the monitoring flag cleared.
WorkerTimeout(i) ==
    /\ i \in 1..Len(tasks)
    /\ tasks[i].st = "wait"
    /\ ~tasks[i].cancel
    /\ ~monitoring
    /\ tasks' = [tasks EXCEPT ![i] = Worker("done", FALSE)]
    /\ UNCHANGED <<ciVars, groups, monitoring, handlers, queue>>
    /\ UNCHANGED <<evVars, replay, batchVars>>
    /\ UNCHANGED offMain

\* (variant: only a relevant message is counted)
update_message_stats_if_relevant(g, rel) ==
    LET old == IF g \in DOMAIN msGroup
               THEN msGroup[g]
               ELSE [messages_processed |-> 0, relevant_messages |-> 0]
        new == [messages_processed |-> old.messages_processed + (IF rel THEN 1 ELSE 0),
                relevant_messages |-> old.relevant_messages + (IF rel THEN 1 ELSE 0)]
    IN  /\ msProcessed' = msProcessed + 1
        /\ msRelevant' = IF rel THEN msRelevant + 1 ELSE msRelevant
        /\ msGroup' = [h \in DOMAIN msGroup \cup {g} |-> IF h = g THEN new ELSE msGroup[h]]
        /\ msCalls' = msCalls + 1

\* update_message_stats(group_id, group_name, is_relevant, keywords_matched):
\* the total and the group's entry, created with zeros if it is not there,
\* count the message, and the relevant counters count it if it is relevant.
\* (The keyword counters are left out.)
update_message_stats(g, rel) ==
    LET old == IF g \in DOMAIN msGroup
               THEN msGroup[g]
               ELSE [messages_processed |-> 0, relevant_messages |-> 0]
        new == [messages_processed |-> old.messages_processed + 1,
                relevant_messages |-> old.relevant_messages + (IF rel THEN 1 ELSE 0)]
    IN  /\ msProcessed' = msProcessed + 1
        /\ msRelevant' = IF rel THEN msRelevant + 1 ELSE msRelevant
        /\ msGroup' = [h \in DOMAIN msGroup \cup {g} |-> IF h = g THEN new ELSE msGroup[h]]
        /\ msCalls' = msCalls + 1

\* handle_new_message up to the store: rate limiter, process_message, filter
\* and, for a message of group g that process_message made a record of,
\* update_message_stats.
\*   none        no processor, or process_message returned None
\*   error       an exception, swallowed by `except Exception`
\*   irrelevant  filtered out
\*   relevant    goes on to store_message
WorkerProcess(i) ==
    /\ i \in 1..Len(tasks)
    /\ tasks[i].st = "proc"
    /\ ~tasks[i].cancel
    /\ \E outcome \in {"none", "error", "irrelevant", "relevant"} :
         /\ tasks' = [tasks EXCEPT ![i] =
                        IF outcome = "relevant"
                        THEN Worker("store", FALSE)
                        ELSE LoopAgain]
         /\ failedAt' = IF outcome \in {"none", "error"} /\ failedAt = 0
                        THEN delivered
                        ELSE failedAt
         /\ IF outcome \in {"irrelevant", "relevant"}
            THEN \E g \in 1..groups : update_message_stats(g, outcome = "relevant")
            ELSE UNCHANGED statsVars
    /\ UNCHANGED <<ciVars, groups, monitoring, handlers, queue>>
    /\ UNCHANGED <<delivered, expiries, sinceExpiry, replay, batchVars>>
    /\ UNCHANGED offWorker

\* store_message returns (it raises nothing) and the worker loops.
WorkerStore(i) ==
    /\ i \in 1..Len(tasks)
    /\ tasks[i].st = "store"
    /\ ~tasks[i].cancel
    /\ tasks' = [tasks EXCEPT ![i] = LoopAgain]
    /\ UNCHANGED <<ciVars, groups, monitoring, handlers, queue>>
    /\ UNCHANGED <<evVars, replay, batchVars>>
    /\ UNCHANGED offMain

\* handle_new_message catches SessionExpiredError and calls stop_monitoring
\* from the worker's own task.
\*  - not monitoring: stop_monitoring returns, the error is re-raised and
\*    swallowed by handle_message_processing_errors; the loop test ends the worker.
\*  - monitoring: the flag is cleared and the tasks cancelled, the worker's own
\*    task among them.  With a hung task in the list its cancel() raises
\*    (an Exception, swallowed by the decorator) and the loop test ends the
\*    worker.  Otherwise the worker awaits the gather of a list that holds its
\*    own task: the pending cancellation cancels the gather, which cancels its
\*    children, the worker among them, and so on without end; the event loop
\*    logs the RecursionError and the task is never resumed.
\* CommandInterface is not told: its state is not touched.
WorkerSessionExpired(i) ==
    /\ i \in 1..Len(tasks)
    /\ tasks[i].st = "proc"
    /\ ~tasks[i].cancel
    /\ expiries < MaxExpiries
    /\ expiries' = expiries + 1
    /\ sinceExpiry' = TRUE
    /\ IF ~monitoring
       THEN /\ tasks' = [tasks EXCEPT ![i] = Worker("done", FALSE)]
            /\ UNCHANGED monitoring
       ELSE /\ monitoring' = FALSE
            /\ tasks' = [CancelAll(tasks, i) EXCEPT ![i] =
                           IF FirstHung(tasks) # 0
                           THEN Worker("done", FALSE)
                           ELSE Worker("hung", FALSE)]
    /\ UNCHANGED <<ciVars, groups, handlers, queue>>
    /\ UNCHANGED <<delivered, failedAt, replay, batchVars>>
    /\ UNCHANGED offMain

\* ---------------------------------------------------- specification
Next ==
    \/ \E c \in Callers : Issue(c)
    \/ \E c \in Callers : CmdRejected(c)
    \/ \E c \in Callers : StartBegin(c)
    \/ \E c \in Callers : StartDiscover(c)
    \/ \E c \in Callers : MonitorStep(c)
    \/ \E c \in Callers : StopBegin(c)
    \/ \E c \in Callers : StopFinish(c)
    \/ DeliverEvent
    \/ \E i \in 1..(2 * MaxWorkers * (MaxExpiries + 1)) : WorkerDequeue(i)
    \/ \E i \in 1..(2 * MaxWorkers * (MaxExpiries + 1)) : WorkerCancelled(i)
    \/ \E i \in 1..(2 * MaxWorkers * (MaxExpiries + 1)) : WorkerTimeout(i)
    \/ \E i \in 1..(2 * MaxWorkers * (MaxExpiries + 1)) : WorkerProcess(i)
    \/ \E i \in 1..(2 * MaxWorkers * (MaxExpiries + 1)) : WorkerStore(i)
    \/ \E i \in 1..(2 * MaxWorkers * (MaxExpiries + 1)) : WorkerSessionExpired(i)

vars == <<mainVars, offMain>>

Spec == Init /\ [][Next]_vars

\* The commands alone: the client delivers no message, so the workers only
\* wait on the empty queue until a stop or pause ends them.
NextCommands ==
    \/ \E c \in Callers : Issue(c)
    \/ \E c \in Callers : CmdRejected(c)
    \/ \E c \in Callers : StartBegin(c)
    \/ \E c \in Callers : StartDiscover(c)
    \/ \E c \in Callers : MonitorStep(c)
    \/ \E c \in Callers : StopBegin(c)
    \/ \E c \in Callers : StopFinish(c)
    \/ \E i \in 1..MaxWorkers : WorkerCancelled(i)

SpecCommands == Init /\ [][NextCommands]_vars

\* update_message_stats called from outside the workers, for a message of
\* group g that is relevant or not.
UpdateMessageStats ==
    /\ msCalls < MaxUpdates
    /\ \E g \in 1..MaxStatGroups, rel \in BOOLEAN : update_message_stats(g, rel)
    /\ UNCHANGED <<mainVars, offWorker>>

\* The commands and update_message_stats calls, in any order.
NextStats ==
    \/ NextCommands
    \/ UpdateMessageStats

SpecStats == Init /\ [][NextStats]_vars

\* get_status: a coroutine without an await and without the command lock; it
\* reads the fields as they are and returns.
GetStatus ==
    /\ lastStatus' = [called |-> TRUE, busy |-> lockHolder # 0, status |-> get_status]
    /\ UNCHANGED <<mainVars, retryVars, storeVars, limiterVars, reloadVars, healthVars, filterVars, scanVars, discVars, statsVars>>

\* The commands and status queries.
NextStatus ==
    \/ NextCommands
    \/ GetStatus

SpecStatus == Init /\ [][NextStatus]_vars

\* The event loop runs every task that is ready: a worker whose queue.get()
\* can return is resumed, and a call of handle_new_message or store_message
\* that was started comes back (its awaits are bounded: the rate limiter
\* sleeps at most a minute, storage retries at most StoreRetries times).
\* The commands are a user's choice and get no fairness.
WorkerFairness ==
    /\ WF_vars(\E i \in 1..(2 * MaxWorkers * (MaxExpiries + 1)) : WorkerDequeue(i))
    /\ WF_vars(\E i \in 1..(2 * MaxWorkers * (MaxExpiries + 1)) : WorkerProcess(i))
    /\ WF_vars(\E i \in 1..(2 * MaxWorkers * (MaxExpiries + 1)) : WorkerStore(i))

SpecLive == Init /\ [][Next]_vars /\ WorkerFairness

\* ------------------------------------------- ErrorHandler.with_retry
\* The classes of exception with_retry tells apart.
\*   flood    FloodWaitError
\*   conn     OSError, ConnectionError
\*   session  AuthKeyUnregisteredError, SessionPasswordNeededError
\*   auth     ApiIdInvalidError, PhoneCodeInvalidError
\*   perm     ChannelPrivateError, ChatAdminRequiredError
\*   other    any other Exception
ErrorKinds == {"flood", "conn", "session", "auth", "perm", "other"}

\* FloodWaitError.seconds of the rate-limit errors the operation raises.
FloodSeconds == {2, 4}

RetryArgs == {None} \cup {Some(r) : r \in 0..MaxRetries}

\* retries = max_retries or self.max_retries
Retries(arg, default) == IF ~arg.given \/ arg.value = 0 THEN default ELSE arg.value

\* (variant: one retry short)
CanRetryShort(attempt, retries) == attempt + 1 < retries

\* if attempt < retries
CanRetry(attempt, retries) == attempt < retries

RECURSIVE Pow2(_)
Pow2(n) == IF n = 0 THEN 1 ELSE 2 * Pow2(n - 1)

\* (variant: the base delay in both modes)
calculate_backoff_delay_flat(attempt, exponential) == BaseDelay

\* _calculate_backoff_delay(attempt, exponential)
calculate_backoff_delay(attempt, exponential) ==
    IF exponential THEN BaseDelay * Pow2(attempt) ELSE BaseDelay

\* wait_time = e.seconds * flood_wait_multiplier
FloodWait(seconds) == seconds * FloodWaitMultiplier

\* with_retry leaves by return or raise.
RetryEnds(outcome) ==
    /\ rtPc' = "done"
    /\ rtOutcome' = outcome
    /\ UNCHANGED <<rtAttempt, rtDelay>>

\* with_retry sleeps d before its next attempt.
RetrySleeps(d) ==
    /\ rtPc' = "sleep"
    /\ rtDelay' = d
    /\ UNCHANGED <<rtAttempt, rtOutcome>>

\* (variant: no except clause for the session errors)
ExceptClauseNoSession(kind) ==
    CASE kind = "flood" -> "flood"
      [] kind = "conn" -> "conn"
      [] kind \in {"auth", "perm"} -> "reraise"
      [] OTHER -> "other"

\* The first except clause of with_retry that matches an error of class kind.
ExceptClause(kind) ==
    CASE kind = "flood" -> "flood"
      [] kind = "conn" -> "conn"
      [] kind = "session" -> "session"
      [] kind \in {"auth", "perm"} -> "reraise"
      [] OTHER -> "other"

\* The except branch of error class kind (FloodWaitError with e.seconds = secs).
RetryHandle(kind, secs) ==
    LET retries == Retries(rtArg, rtMax)
        more == CanRetry(rtAttempt, retries)
        clause == ExceptClause(kind)
    IN CASE clause = "flood" ->
              IF more
              THEN /\ rtLog' = Append(rtLog, "retry")
                   /\ RetrySleeps(FloodWait(secs))
              ELSE /\ rtLog' = rtLog \o <<"retry", "failed">>
                   /\ RetryEnds("MaxRetriesExceededError")
         [] clause = "conn" ->
              IF more
              THEN /\ rtLog' = Append(rtLog, "retry")
                   /\ RetrySleeps(calculate_backoff_delay(rtAttempt, rtExp))
              ELSE /\ rtLog' = Append(rtLog, "failed")
                   /\ RetryEnds("NetworkConnectivityError")
         [] clause = "session" ->
              /\ rtLog' = rtLog
              /\ RetryEnds("SessionExpiredError")
         [] clause = "reraise" ->
              /\ rtLog' = rtLog
              /\ RetryEnds("original")
         [] clause = "other" ->
              IF more
              THEN /\ rtLog' = Append(rtLog, "retry")
                   /\ RetrySleeps(calculate_backoff_delay(rtAttempt, rtExp))
              ELSE /\ rtLog' = Append(rtLog, "failed")
                   /\ RetryEnds("MaxRetriesExceededError")

\* A with_retry call: the handler's max_retries, the arguments and the
\* operation's behaviour are chosen, and the loop is entered.
WithRetryCall ==
    /\ rtPc = "idle"
    /\ rtMax' \in 0..MaxRetries
    /\ rtArg' \in RetryArgs
    /\ rtExp' \in BOOLEAN
    /\ rtPlan' \in 0..(MaxRetries + 1)
    /\ rtFails' = rtPlan'
    /\ rtPc' = "call"
    /\ UNCHANGED <<rtAttempt, rtCalls, rtDelay, rtSleeps, rtLog, rtOutcome, rtLastKind,
                   rtSecs>>
    /\ UNCHANGED offRetry

\* One pass of the loop body: func is awaited; it returns, or raises an error
\* of some class and the matching except branch runs.
WithRetryInvoke ==
    /\ rtPc = "call"
    /\ rtCalls' = rtCalls + 1
    /\ IF rtFails = 0
       THEN /\ rtLog' = Append(rtLog, "success")
            /\ RetryEnds("returned")
            /\ UNCHANGED <<rtFails, rtLastKind, rtSecs>>
       ELSE /\ rtFails' = rtFails - 1
            /\ \E kind \in ErrorKinds :
                 /\ rtLastKind' = kind
                 /\ \E secs \in (IF kind = "flood" THEN FloodSeconds ELSE {0}) :
                      /\ rtSecs' = secs
                      /\ RetryHandle(kind, secs)
    /\ UNCHANGED <<rtMax, rtArg, rtExp, rtPlan, rtSleeps>>
    /\ UNCHANGED offRetry

\* asyncio.sleep returns and the loop continues with the next attempt.
WithRetrySleep ==
    /\ rtPc = "sleep"
    /\ rtSleeps' = Append(rtSleeps, [after |-> rtAttempt, delay |-> rtDelay])
    /\ rtAttempt' = rtAttempt + 1
    /\ rtDelay' = 0
    /\ rtPc' = "call"
    /\ UNCHANGED <<rtMax, rtArg, rtExp, rtPlan, rtFails, rtCalls, rtLog, rtOutcome, rtLastKind,
                   rtSecs>>
    /\ UNCHANGED offRetry

NextRetry ==
    \/ WithRetryCall
    \/ WithRetryInvoke
    \/ WithRetrySleep

SpecRetry == Init /\ [][NextRetry]_vars

\* ----------------------------------------------------- StorageManager
\* The fields _generate_content_hash reads.
Key(r) == <<r.id, r.group_id, r.content>>

\* (variant: stored_at enters the hash)
HashWithStoredAt(r) ==
    ToString(r.id) \o ToString(r.group_id) \o r.content \o r.stored_at

\* _generate_content_hash: the md5 of f"{id}{group_id}{content}".  md5 is taken
\* as injective, so the hash is the hashed string itself.
generate_content_hash(r) == ToString(r.id) \o ToString(r.group_id) \o r.content

\* datetime.isoformat() and str(datetime) of the datetime objects.
IsoFormat(d) == "2024-01-06T10:00:00"

PyStr(d) == "2024-01-06 10:00:00"

\* The JSON text of a string.
Quote(str) == "\"" \o str \o "\""

\* json.dump(..., default=str) of a field value: a string as it is, any
\* object json cannot serialize through str().
JsonValue(v) == IF v \in Datetimes THEN Quote(PyStr(v)) ELSE Quote(v)

\* json.dump of the list of records: numbers in decimal, strings quoted.
JsonDump(list) ==
    [i \in 1..Len(list) |->
       [id |-> ToString(list[i].id),
        group_id |-> ToString(list[i].group_id),
        content |-> Quote(list[i].content),
        stored_at |-> JsonValue(list[i].stored_at)]]

\* The strings a storage file can hold.
FileStrings ==
    Contents \cup (StoredAts \ Datetimes) \cup {"now"}
       \cup {PyStr(d) : d \in Datetimes} \cup {IsoFormat(d) : d \in Datetimes}

\* json.load of a number and of a string.
ParseInt(txt) == CHOOSE n \in Ids \cup GroupIds : ToString(n) = txt

Unquote(txt) == CHOOSE str \in FileStrings : Quote(str) = txt

\* json.load of the text of a list of records.
JsonLoad(text) ==
    [i \in 1..Len(text) |->
       [id |-> ParseInt(text[i].id),
        group_id |-> ParseInt(text[i].group_id),
        content |-> Unquote(text[i].content),
        stored_at |-> Unquote(text[i].stored_at)]]

is_duplicate(r) == generate_content_hash(r) \in stHashes

check_duplicate(r) == is_duplicate(r)

\* if 'stored_at' not in message_data: message_data['stored_at'] = now
Stamp(r) == IF r.stored_at = "absent" THEN [r EXCEPT !.stored_at = "now"] ELSE r

Stored(k) == \E i \in 1..Len(stData) : Key(stData[i]) = k

\* store_message returns res to its caller, or is left by CancelledError.
StoreReturns(c, res) ==
    /\ stLast' = Ended(res, stDup[c], stMsg[c])
    /\ stDup' = [stDup EXCEPT ![c] = FALSE]
    /\ stPc' = [stPc EXCEPT ![c] = "idle"]
    /\ stMsg' = [stMsg EXCEPT ![c] = NoMsg]
    /\ stAttempt' = [stAttempt EXCEPT ![c] = 0]
    /\ stTry' = [stTry EXCEPT ![c] = 0]

\* store_message is called with some message_data.
StoreCall(c) ==
    /\ stPc[c] = "idle"
    /\ stCalls < MaxStores
    /\ \E msg \in Messages :
         /\ stMsg' = [stMsg EXCEPT ![c] = msg]
         /\ stDup' = [stDup EXCEPT ![c] = Stored(Key(msg))]
         /\ stHist' = [stHist EXCEPT !.asked = @ \cup {Key(msg)}]
    /\ stPc' = [stPc EXCEPT ![c] = "lock"]
    /\ stCalls' = stCalls + 1
    /\ stOverlap' = (stOverlap \/ \E d \in Storers : stPc[d] # "idle")
    /\ UNCHANGED <<stData, stHashes, stLock, stFile, stBackup, stAttempt, stTry,
                   stLast, stGood>>
    /\ UNCHANGED offStore

\* _store_impl up to the persist: under the lock, a duplicate returns False
\* (and so does store_message); otherwise the record is stamped, appended,
\* its hash added, and _persist_with_retry entered with the lock held.
StoreImpl(c) ==
    /\ stPc[c] = "lock"
    /\ stLock = 0
    /\ IF is_duplicate(stMsg[c])
       THEN /\ StoreReturns(c, "False")
            /\ UNCHANGED <<stData, stHashes, stLock, stHist>>
       ELSE /\ stMsg' = [stMsg EXCEPT ![c] = Stamp(stMsg[c])]
            /\ stData' = Append(stData, Stamp(stMsg[c]))
            /\ stHashes' = stHashes \cup {generate_content_hash(Stamp(stMsg[c]))}
            /\ stLock' = c
            /\ stAttempt' = [stAttempt EXCEPT ![c] = 0]
            /\ stPc' = [stPc EXCEPT ![c] = "rename"]
            /\ stHist' = [stHist EXCEPT !.before = stFile]
            /\ UNCHANGED <<stDup, stLast, stTry>>
    /\ UNCHANGED <<stFile, stBackup, stCalls, stOverlap, stGood>>
    /\ UNCHANGED offStore

\* `except (IOError, OSError)` of _persist_with_retry: sleep and try again,
\* or, after the last attempt, go on to restore the backup.
PersistFailed(c) ==
    stPc' = [stPc EXCEPT ![c] =
               IF stAttempt[c] < PersistAttempts - 1 THEN "psleep" ELSE "restore"]

\* An attempt begins: an existing storage file is renamed to .backup
\* (replacing a backup that is there).
PersistRename(c) ==
    /\ stPc[c] = "rename"
    /\ IF stFile.exists
       THEN /\ stBackup' = stFile
            /\ stFile' = NoFile
       ELSE UNCHANGED <<stFile, stBackup>>
    /\ stPc' = [stPc EXCEPT ![c] = "write"]
    /\ UNCHANGED <<stData, stHashes, stLock, stMsg, stAttempt, stTry, stDup,
                   stLast, stCalls, stOverlap, stHist, stGood>>
    /\ UNCHANGED offStore

\* open(storage_file, 'w') and json.dump:
\*   ok       the whole array is written
\*   open     open raises: no file is created
\*   partial  the write raises after the file was created: it is cut short
PersistWrite(c) ==
    /\ stPc[c] = "write"
    /\ \E outcome \in {"ok", "open", "partial"} :
         CASE outcome = "ok" ->
                /\ stFile' = FileOf(JsonDump(stData), TRUE)
                /\ stGood' = TRUE
                /\ stPc' = [stPc EXCEPT ![c] = "unlink"]
                /\ UNCHANGED stHist
           [] outcome = "open" ->
                /\ PersistFailed(c)
                /\ UNCHANGED stHist
                /\ UNCHANGED <<stFile, stGood>>
           [] outcome = "partial" ->
                /\ stFile' = FileOf(JsonDump(stData), FALSE)
                /\ PersistFailed(c)
                /\ UNCHANGED stHist
                /\ UNCHANGED stGood
    /\ UNCHANGED <<stData, stHashes, stLock, stBackup, stMsg, stAttempt, stTry,
                   stDup, stLast, stCalls, stOverlap>>
    /\ UNCHANGED offStore

\* The backup is removed; _persist_with_retry and _store_impl return, the
\* lock is released and store_message returns True.
PersistUnlink(c) ==
    /\ stPc[c] = "unlink"
    /\ stBackup' = NoFile
    /\ stLock' = 0
    /\ StoreReturns(c, "True")
    /\ stHist' = [stHist EXCEPT !.trues[Key(stMsg[c])] = @ + 1]
    /\ UNCHANGED <<stData, stHashes, stFile, stCalls, stOverlap, stGood>>
    /\ UNCHANGED offStore

\* asyncio.sleep(2 ** attempt) returns and the next attempt begins.
PersistSleep(c) ==
    /\ stPc[c] = "psleep"
    /\ stAttempt' = [stAttempt EXCEPT ![c] = stAttempt[c] + 1]
    /\ stPc' = [stPc EXCEPT ![c] = "rename"]
    /\ UNCHANGED <<stData, stHashes, stLock, stFile, stBackup, stMsg, stTry,
                   stDup, stLast, stCalls, stOverlap, stHist, stGood>>
    /\ UNCHANGED offStore

\* After the last failed attempt: an existing backup is renamed back and the
\* error re-raised; it leaves _store_impl (the lock is released) and reaches
\* with_retry, which retries an OSError while attempts remain and otherwise
\* raises, store_message then returning False.
PersistRestore(c) ==
    /\ stPc[c] = "restore"
    /\ IF stBackup.exists
       THEN /\ stFile' = stBackup
            /\ stBackup' = NoFile
       ELSE UNCHANGED <<stFile, stBackup>>
    /\ stLock' = 0
    /\ IF CanRetry(stTry[c], StoreRetries)
       THEN /\ stPc' = [stPc EXCEPT ![c] = "retry"]
            /\ UNCHANGED <<stDup, stLast, stMsg, stAttempt, stTry>>
       ELSE StoreReturns(c, "False")
    /\ UNCHANGED <<stData, stHashes, stCalls, stOverlap, stHist, stGood>>
    /\ UNCHANGED offStore

\* with_retry's backoff sleep returns and _store_impl is invoked again.
StoreRetry(c) ==
    /\ stPc[c] = "retry"
    /\ stTry' = [stTry EXCEPT ![c] = stTry[c] + 1]
    /\ stPc' = [stPc EXCEPT ![c] = "lock"]
    /\ UNCHANGED <<stData, stHashes, stLock, stFile, stBackup, stMsg, stAttempt,
                   stDup, stLast, stCalls, stOverlap, stHist, stGood>>
    /\ UNCHANGED offStore

\* The task is cancelled while it sleeps between two attempts: CancelledError
\* leaves store_message, releasing the lock if the task holds it.
StoreCancelled(c) ==
    /\ stPc[c] \in {"psleep", "retry"}
    /\ stLock' = IF stPc[c] = "psleep" THEN 0 ELSE stLock
    /\ StoreReturns(c, "cancelled")
    /\ stHist' = [stHist EXCEPT !.cancelled = TRUE]
    /\ UNCHANGED <<stData, stHashes, stFile, stBackup, stCalls, stOverlap, stGood>>
    /\ UNCHANGED offStore

NextStore ==
    \/ \E c \in Storers : StoreCall(c)
    \/ \E c \in Storers : StoreImpl(c)
    \/ \E c \in Storers : PersistRename(c)
    \/ \E c \in Storers : PersistWrite(c)
    \/ \E c \in Storers : PersistUnlink(c)
    \/ \E c \in Storers : PersistSleep(c)
    \/ \E c \in Storers : PersistRestore(c)
    \/ \E c \in Storers : StoreRetry(c)
    \/ \E c \in Storers : StoreCancelled(c)

SpecStore == Init /\ [][NextStore]_vars

\* initialize() of the second manager, one invocation of _initialize_impl by
\* with_retry.  No file: it starts empty.  A whole file: json.load and the
\* hash set rebuilt.  A file cut short: JSONDecodeError, _data = [] and the
\* error re-raised to with_retry, which retries it (a ValueError, matched by
\* `except Exception`) while attempts remain and then raises
\* MaxRetriesExceededError; initialize catches that and continues with empty
\* data.  The manager has its own lock, so it reads whatever the first
\* manager has on disk at that moment.
InitializeLoad ==
    /\ ldPc = "new"
    /\ IF ~stFile.exists
       THEN /\ ldPc' = "ready"
            /\ UNCHANGED <<ldTry, ldData, ldHashes>>
       ELSE IF stFile.complete
       THEN /\ ldData' = JsonLoad(stFile.list)
            /\ ldHashes' = {generate_content_hash(JsonLoad(stFile.list)[i]) :
                               i \in 1..Len(stFile.list)}
            /\ ldPc' = "ready"
            /\ UNCHANGED ldTry
       ELSE /\ ldData' = <<>>
            /\ ldHashes' = {}
            /\ ldPc' = IF CanRetry(ldTry, StoreRetries) THEN "sleep" ELSE "ready"
            /\ UNCHANGED ldTry
    /\ UNCHANGED <<mainVars, retryVars, storeVars, limiterVars, statusVars, healthVars, filterVars, scanVars, discVars, statsVars>>

\* with_retry's backoff sleep returns and _initialize_impl is invoked again.
InitializeRetry ==
    /\ ldPc = "sleep"
    /\ ldTry' = ldTry + 1
    /\ ldPc' = "new"
    /\ UNCHANGED <<ldData, ldHashes>>
    /\ UNCHANGED <<mainVars, retryVars, storeVars, limiterVars, statusVars, healthVars, filterVars, scanVars, discVars, statsVars>>

\* store_message calls on one manager and initialize() of a second one.
NextReload ==
    \/ NextStore
    \/ InitializeLoad
    \/ InitializeRetry

SpecReload == Init /\ [][NextReload]_vars

\* -------------------------------------------------------- RateLimiter
\* (variant: the lock never excludes)
LimiterUnlocked == TRUE

\* asyncio.Lock: `async with self._lock` enters only when unlocked.
LimiterLockFree == lmLock = 0

\* [t for t in self.request_times if t > cutoff], cutoff = now - 60
Evict(times, now) == SelectSeq(times, LAMBDA t : t > now - Window)

\* min(self.request_times), of a list that is not empty
Oldest(times) ==
    CHOOSE t \in {times[i] : i \in 1..Len(times)} :
        \A i \in 1..Len(times) : t <= times[i]

\* (variant: the wait is one unit short)
WaitTimeShort(times, now) == Window - 1 - (now - Oldest(times))

\* wait_time = 60 - (now - oldest_request)
WaitTime(times, now) == Window - (now - Oldest(times))

\* RateLimiter(requests_per_minute = n)
LimiterNew ==
    /\ lmRpm < 0
    /\ lmRpm' \in 0..MaxRpm
    /\ UNCHANGED <<lmTimes, lmLock, lmPc, lmWake, lmSeen, lmLast, lmCalls, clock>>
    /\ UNCHANGED offLimiter

\* Time passes.
Tick ==
    /\ lmRpm >= 0
    /\ clock < MaxClock
    /\ clock' = clock + 1
    /\ UNCHANGED <<lmRpm, lmTimes, lmLock, lmPc, lmWake, lmSeen, lmLast, lmCalls>>
    /\ UNCHANGED offLimiter

\* acquire() is called; it then waits for the lock.
AcquireCall(c) ==
    /\ lmRpm >= 0
    /\ lmPc[c] = "idle"
    /\ lmCalls < MaxAcquires
    /\ lmCalls' = lmCalls + 1
    /\ lmPc' = [lmPc EXCEPT ![c] = "lock"]
    /\ UNCHANGED <<lmRpm, lmTimes, lmLock, lmWake, lmSeen, lmLast, clock>>
    /\ UNCHANGED offLimiter

\* acquire() from taking the lock to its first suspension or its return:
\* the eviction, the limit check, and then either the append and return, the
\* sleep (with the lock held), or the ValueError of min([]) when
\* requests_per_minute is 0.
AcquireEnter(c) ==
    /\ lmPc[c] = "lock"
    /\ LimiterLockFree
    /\ LET kept == Evict(lmTimes, clock)
       IN IF Len(kept) >= lmRpm
          THEN IF kept = <<>>
               THEN /\ lmTimes' = kept
                    /\ lmLast' = "raised"
                    /\ lmPc' = [lmPc EXCEPT ![c] = "idle"]
                    /\ UNCHANGED <<lmLock, lmWake, lmSeen>>
               ELSE IF WaitTime(kept, clock) > 0
                    THEN /\ lmTimes' = kept
                         /\ lmSeen' = [lmSeen EXCEPT ![c] = kept]
                         /\ lmLock' = c
                         /\ lmWake' = [lmWake EXCEPT ![c] = clock + WaitTime(kept, clock)]
                         /\ lmPc' = [lmPc EXCEPT ![c] = "sleep"]
                         /\ UNCHANGED lmLast
                    ELSE /\ lmTimes' = Append(kept, clock)
                         /\ lmLast' = "direct"
                         /\ lmPc' = [lmPc EXCEPT ![c] = "idle"]
                         /\ UNCHANGED <<lmLock, lmWake, lmSeen>>
          ELSE /\ lmTimes' = Append(kept, clock)
               /\ lmLast' = "direct"
               /\ lmPc' = [lmPc EXCEPT ![c] = "idle"]
               /\ UNCHANGED <<lmLock, lmWake, lmSeen>>
    /\ UNCHANGED <<lmRpm, lmCalls, clock>>
    /\ UNCHANGED offLimiter

\* asyncio.sleep(wait_time) is over, now or later: the second eviction, the
\* append, the release of the lock and the return.
AcquireWake(c) ==
    /\ lmPc[c] = "sleep"
    /\ clock >= lmWake[c]
    /\ lmTimes' = Append(Evict(lmTimes, clock), clock)
    /\ lmSeen' = [lmSeen EXCEPT ![c] = <<>>]
    /\ lmLock' = 0
    /\ lmWake' = [lmWake EXCEPT ![c] = 0]
    /\ lmLast' = "waited"
    /\ lmPc' = [lmPc EXCEPT ![c] = "idle"]
    /\ UNCHANGED <<lmRpm, lmCalls, clock>>
    /\ UNCHANGED offLimiter

NextLimiter ==
    \/ LimiterNew
    \/ Tick
    \/ \E c \in Acquirers : AcquireCall(c)
    \/ \E c \in Acquirers : AcquireEnter(c)
    \/ \E c \in Acquirers : AcquireWake(c)

SpecLimiter == Init /\ [][NextLimiter]_vars

\* Time passes, and the event loop resumes a task whose asyncio.sleep is
\* over.
LimiterFairness ==
    /\ WF_vars(Tick)
    /\ \A c \in Acquirers : WF_vars(AcquireWake(c))

SpecLimiterLive == Init /\ [][NextLimiter]_vars /\ LimiterFairness

\* ------------------------------------- GroupScanner called directly
\* The variables a direct call of the GroupScanner leaves alone.
offScan == <<ciVars, replay, batchVars, retryVars, storeVars, limiterVars,
            statusVars, reloadVars, healthVars, filterVars, discVars, statsVars>>

\* A GroupScanner whose discover_groups has found some groups, or none.
InitScanner ==
    /\ state = "stopped"
    /\ lastError = "none"
    /\ lockHolder = 0
    /\ pc = [c \in Callers |-> "idle"]
    /\ cmd = [c \in Callers |-> "none"]
    /\ seen = "stopped"
    /\ lastRes = NoRes
    /\ groups \in 0..MaxDiscovered
    /\ monitoring = FALSE
    /\ handlers = 0
    /\ queue = 0
    /\ tasks = <<>>
    /\ delivered = 0
    /\ expiries = 0
    /\ sinceExpiry = FALSE
    /\ failedAt = 0
    /\ replay = "stopped"
    /\ batch = [c \in Callers |-> FALSE]
    /\ batchIssued = 0
    /\ batchDone = 0
    /\ batchOk = 0
    /\ RetryIdle
    /\ StoreIdle
    /\ LimiterIdle
    /\ StatusIdle
    /\ ReloadIdle
    /\ HealthIdle
    /\ FilterIdle
    /\ ScanIdle
    /\ DiscoverCallIdle
    /\ dgDiscovered = GroupList(groups)
    /\ StatsIdle

\* start_monitoring() is called and returns (authenticated, client there).
ScanStart ==
    /\ smPc = "idle"
    /\ smStarts + smStops < MaxCalls
    /\ smStarts' = smStarts + 1
    /\ StartMonitoring
    /\ UNCHANGED <<smPc, smStops, groups, queue, evVars>>
    /\ UNCHANGED offScan

\* stop_monitoring() is called.  Not monitoring: it returns at once.
\* Monitoring: the flag is cleared and the tasks cancelled; a hung task in the
\* list makes its cancel() raise and the call is left by the exception;
\* otherwise the caller awaits the gather.
ScanStopBegin ==
    /\ smPc = "idle"
    /\ smStarts + smStops < MaxCalls
    /\ smStops' = smStops + 1
    /\ IF ~monitoring
       THEN UNCHANGED <<monitoring, tasks, smPc>>
       ELSE /\ monitoring' = FALSE
            /\ tasks' = CancelAll(tasks, 0)
            /\ smPc' = IF FirstHung(tasks) # 0 THEN "idle" ELSE "gather"
    /\ UNCHANGED <<smStarts, groups, handlers, queue, evVars>>
    /\ UNCHANGED offScan

\* The gather is over: the task list is cleared, the queue drained, and
\* stop_monitoring returns.
ScanStopFinish ==
    /\ smPc = "gather"
    /\ \A i \in 1..Len(tasks) : Done(tasks[i])
    /\ tasks' = <<>>
    /\ queue' = 0
    /\ smPc' = "idle"
    /\ UNCHANGED <<smStarts, smStops, groups, monitoring, handlers, evVars>>
    /\ UNCHANGED offScan

NextScanner ==
    \/ ScanStart
    \/ ScanStopBegin
    \/ ScanStopFinish
    \/ DeliverEvent
    \/ \E i \in 1..(MaxWorkers * MaxCalls) : WorkerDequeue(i)
    \/ \E i \in 1..(MaxWorkers * MaxCalls) : WorkerCancelled(i)
    \/ \E i \in 1..(MaxWorkers * MaxCalls) : WorkerTimeout(i)
    \/ \E i \in 1..(MaxWorkers * MaxCalls) : WorkerProcess(i)
    \/ \E i \in 1..(MaxWorkers * MaxCalls) : WorkerStore(i)
    \/ \E i \in 1..(MaxWorkers * MaxCalls) : WorkerSessionExpired(i)

SpecScanner == InitScanner /\ [][NextScanner]_vars

\* The event loop resumes every task that can run: a worker whose wait_for
\* returns or times out, whose cancellation is delivered or whose awaited
\* call is over, and the caller whose gather is complete.
ScannerFairness ==
    /\ \A i \in 1..(MaxWorkers * MaxCalls) :
          /\ WF_vars(WorkerDequeue(i))
          /\ WF_vars(WorkerCancelled(i))
          /\ WF_vars(WorkerTimeout(i))
          /\ WF_vars(WorkerProcess(i))
          /\ WF_vars(WorkerStore(i))
    /\ WF_vars(ScanStopFinish)

SpecScannerLive == InitScanner /\ [][NextScanner]_vars /\ ScannerFairness

\* ------------------------------------------------------ HealthMonitor
\* The variables the HealthMonitor leaves alone.
offHealth == <<mainVars, retryVars, storeVars, limiterVars, statusVars, reloadVars, filterVars, scanVars, discVars, statsVars>>

\* (variant: the thresholds are passed only when exceeded)
StatusAfterFailureLate(c, old) ==
    IF c > UnhealthyAt THEN "unhealthy"
    ELSE IF c > DegradedAt THEN "degraded"
    ELSE old

\* record_failure's if/elif over the incremented count; below both thresholds
\* the status is left as it is.
StatusAfterFailure(c, old) ==
    IF c >= UnhealthyAt THEN "unhealthy"
    ELSE IF c >= DegradedAt THEN "degraded"
    ELSE old

\* Time passes between two calls.
HealthTick ==
    /\ hmNow < MaxHealthClock
    /\ hmNow' = hmNow + 1
    /\ UNCHANGED <<hmFailures, hmStatus, hmLast, hmRun, hmCall>>
    /\ UNCHANGED offHealth

\* record_success(operation)
record_success ==
    /\ hmLast' = hmNow
    /\ hmFailures' = 0
    /\ hmStatus' = IF hmStatus # "healthy" THEN "healthy" ELSE hmStatus
    /\ hmRun' = 0
    /\ hmCall' = [op |-> "record_success", found |-> hmStatus]
    /\ UNCHANGED hmNow

\* record_failure(operation, error)
record_failure ==
    /\ hmFailures < MaxFailures
    /\ hmFailures' = hmFailures + 1
    /\ hmStatus' = StatusAfterFailure(hmFailures + 1, hmStatus)
    /\ hmRun' = hmRun + 1
    /\ hmCall' = [op |-> "record_failure", found |-> hmStatus]
    /\ UNCHANGED <<hmLast, hmNow>>

\* A call of record_success from outside.
RecordSuccess ==
    /\ record_success
    /\ UNCHANGED offHealth

\* A call of record_failure from outside.
RecordFailure ==
    /\ record_failure
    /\ UNCHANGED offHealth

NextHealth ==
    \/ HealthTick
    \/ RecordSuccess
    \/ RecordFailure

SpecHealth == Init /\ [][NextHealth]_vars

\* ------------------------------------------ GroupScanner.discover_groups
\* The variables discover_groups leaves alone.
offDiscover == <<ciVars, monitoring, handlers, queue, tasks, evVars, replay, batchVars,
                 retryVars, storeVars, limiterVars, statusVars, reloadVars, filterVars,
                 scanVars, statsVars>>

\* The groups of an account.  A selected name is written as the group it
\* denotes: it matches that group's title or username and no other.
DialogGroups == 1..MaxDialogGroups

\* _discover_groups_impl is entered: its local list is empty; with selected
\* groups it begins with the direct search, otherwise with the dialogs.
ImplBegins(sel, dialogs) ==
    /\ dgLocal' = <<>>
    /\ dgTodo' = sel
    /\ dgIter' = dialogs
    /\ dgSeen' = {}
    /\ dgPc' = IF sel # {} THEN "direct" ELSE "dialogs"

\* discover_groups returns a list or raises ValueError.
DiscoverEnds(kind, list, by) ==
    /\ dgPc' = "idle"
    /\ dgResult' = [kind |-> kind, list |-> list, by |-> by]
    /\ dgLocal' = <<>>
    /\ dgTodo' = {}
    /\ dgIter' = {}
    /\ dgSeen' = {}
    /\ dgTry' = 0

\* discover_groups is called: without authentication it raises ValueError at
\* once, otherwise wait_for(with_retry(_discover_groups_impl)) begins.
DiscoverCall ==
    /\ dgPc = "idle"
    /\ dgRuns < MaxDiscoveries
    /\ dgRuns' = dgRuns + 1
    /\ \E sel \in SUBSET DialogGroups, dialogs \in SUBSET DialogGroups, auth \in BOOLEAN :
         /\ dgSel' = sel
         /\ dgDialogs' = dialogs
         /\ IF auth
            THEN /\ ImplBegins(sel, dialogs)
                 /\ dgTry' = 0
                 /\ UNCHANGED dgResult
            ELSE DiscoverEnds("ValueError", <<>>, "auth")
    /\ UNCHANGED <<dgDiscovered, groups, healthVars>>
    /\ UNCHANGED offDiscover

\* _discover_groups_impl assigns its list to self._discovered_groups, displays
\* it and returns it; with_retry and wait_for return it and discover_groups
\* records the success.  None of this awaits anything.
ImplReturns(list) ==
    /\ dgDiscovered' = list
    /\ groups' = Len(list)
    /\ DiscoverEnds("list", list, "impl")
    /\ record_success

\* An exception leaves _discover_groups_impl.  A session error becomes
\* SessionExpiredError in with_retry and ValueError in discover_groups; any
\* other is retried after a backoff while attempts remain and then becomes
\* MaxRetriesExceededError, a recorded failure and ValueError.
ImplRaises(kind) ==
    /\ IF kind = "session"
       THEN /\ DiscoverEnds("ValueError", <<>>, "session")
            /\ UNCHANGED healthVars
       ELSE IF CanRetry(dgTry, ScannerRetries)
            THEN /\ dgPc' = "backoff"
                 /\ dgLocal' = <<>>
                 /\ UNCHANGED <<dgTodo, dgIter, dgSeen, dgTry, dgResult>>
                 /\ UNCHANGED healthVars
            ELSE /\ DiscoverEnds("ValueError", <<>>, "retries")
                 /\ record_failure
    /\ UNCHANGED <<dgDiscovered, groups>>

\* The direct search of one selected name: get_entity finds its group, which
\* is appended, or does not.  After the last name the list is returned if every
\* selected group was found; otherwise the dialogs are searched.
DirectSearch ==
    /\ dgPc = "direct"
    /\ dgTodo # {}
    /\ \E g \in dgTodo, found \in BOOLEAN :
         LET local == IF found THEN Append(dgLocal, g) ELSE dgLocal
             todo == dgTodo \ {g}
         IN  IF todo = {} /\ Len(local) = Cardinality(dgSel)
             THEN ImplReturns(local)
             ELSE /\ dgLocal' = local
                  /\ dgTodo' = todo
                  /\ dgPc' = IF todo = {} THEN "dialogs" ELSE "direct"
                  /\ UNCHANGED <<dgIter, dgSeen, dgTry, dgResult, dgDiscovered, groups>>
                  /\ UNCHANGED healthVars
    /\ UNCHANGED <<dgSel, dgDialogs, dgRuns>>
    /\ UNCHANGED offDiscover

\* iter_dialogs yields the dialog of group g.  With every selected group
\* already met among the dialogs the loop is left.  Otherwise the group is
\* extracted (ok), gives no info (none), is private (denied) or raises
\* (error: a failure is recorded); an extracted group that is selected, or any
\* when nothing is selected, is appended unless its id is in the list.
DialogNext(g) ==
    /\ dgPc = "dialogs"
    /\ g \in dgIter
    /\ IF dgSel # {} /\ Cardinality(dgSeen) >= Cardinality(dgSel)
       THEN ImplReturns(dgLocal)
       ELSE /\ dgIter' = dgIter \ {g}
            /\ \E outcome \in {"ok", "none", "denied", "error"} :
                 /\ IF outcome = "ok" /\ (dgSel = {} \/ g \in dgSel)
                    THEN /\ dgSeen' = IF dgSel # {} THEN dgSeen \cup {g} ELSE dgSeen
                         /\ dgLocal' = IF \E i \in 1..Len(dgLocal) : dgLocal[i] = g
                                        THEN dgLocal
                                        ELSE Append(dgLocal, g)
                    ELSE UNCHANGED <<dgSeen, dgLocal>>
                 /\ IF outcome = "error" THEN record_failure ELSE UNCHANGED healthVars
            /\ UNCHANGED <<dgPc, dgTodo, dgTry, dgResult, dgDiscovered, groups>>
    /\ UNCHANGED <<dgSel, dgDialogs, dgRuns>>
    /\ UNCHANGED offDiscover

\* iter_dialogs is exhausted: the list is assigned and returned.
DialogsEnd ==
    /\ dgPc = "dialogs"
    /\ dgIter = {}
    /\ ImplReturns(dgLocal)
    /\ UNCHANGED <<dgSel, dgDialogs, dgRuns>>
    /\ UNCHANGED offDiscover

\* iter_dialogs raises: with a group in the list the discovery completes with
\* what it has, otherwise the exception is raised again.
DialogError ==
    /\ dgPc = "dialogs"
    /\ \E kind \in {"session", "transient"} :
         IF dgLocal # <<>>
         THEN ImplReturns(dgLocal)
         ELSE ImplRaises(kind)
    /\ UNCHANGED <<dgSel, dgDialogs, dgRuns>>
    /\ UNCHANGED offDiscover

\* with_retry's backoff sleep is over: _discover_groups_impl is called again.
DiscoverBackoff ==
    /\ dgPc = "backoff"
    /\ dgTry' = dgTry + 1
    /\ ImplBegins(dgSel, dgDialogs)
    /\ UNCHANGED <<dgSel, dgDialogs, dgRuns, dgResult, dgDiscovered, groups>>
    /\ UNCHANGED healthVars
    /\ UNCHANGED offDiscover

\* wait_for's timeout strikes while with_retry is suspended: `except
\* asyncio.TimeoutError` returns self._discovered_groups if it is not empty
\* and raises ValueError otherwise.
DiscoverTimeout ==
    /\ dgPc \in {"direct", "dialogs", "backoff"}
    /\ IF dgDiscovered # <<>>
       THEN DiscoverEnds("list", dgDiscovered, "timeout")
       ELSE DiscoverEnds("ValueError", <<>>, "timeout")
    /\ UNCHANGED <<dgSel, dgDialogs, dgRuns, dgDiscovered, groups>>
    /\ UNCHANGED healthVars
    /\ UNCHANGED offDiscover

NextDiscover ==
    \/ DiscoverCall
    \/ DirectSearch
    \/ \E g \in DialogGroups : DialogNext(g)
    \/ DialogsEnd
    \/ DialogError
    \/ DiscoverBackoff
    \/ DiscoverTimeout

SpecDiscover == Init /\ [][NextDiscover]_vars

\* ---------------------------------------------------- RelevanceFilter
\* The variables the RelevanceFilter leaves alone.
offFilter == <<mainVars, retryVars, storeVars, limiterVars, statusVars, reloadVars, healthVars, scanVars, discVars, statsVars>>

\* str.lower() and re.IGNORECASE, a character at a time.
LowerChar(ch) == CASE ch = "A" -> "a" [] ch = "B" -> "b" [] OTHER -> ch

Lower(str) == [i \in 1..Len(str) |-> LowerChar(str[i])]

\* str.upper() of the logic operator.
Upper(op) == CASE op = "and" -> "AND" [] op = "or" -> "OR" [] OTHER -> op

\* `k in s` of two strings.
Contains(k, str) ==
    \E i \in 0..(Len(str) - Len(k)) : SubSeq(str, i + 1, i + Len(k)) = k

\* content_to_check.strip() is empty.
Blank(str) == \A i \in 1..Len(str) : str[i] = " "

\* content_to_check: message.content or "", then " " and extracted_text when
\* that is not empty.
ContentToCheck(content, extracted) ==
    IF extracted # <<>> THEN content \o <<" ">> \o extracted ELSE content

\* compiled_regex.search(content) for the compiled patterns, case ignored.
Search(p, str) ==
    CASE p = <<"b", "+">> -> \E i \in 1..Len(str) : LowerChar(str[i]) = "b"
      [] p = <<"^", "a">> -> Len(str) >= 1 /\ LowerChar(str[1]) = "a"
      [] OTHER -> FALSE

\* match_keywords
match_keywords(str) ==
    SelectSeq(flKeywords, LAMBDA k : Contains(Lower(k), Lower(str)))

\* match_regex
match_regex(str) ==
    IF flPatterns = <<>> THEN <<>>
    ELSE SelectSeq(flCompiled, LAMBDA p : Search(p, str))

\* (variant: without the empty-match test)
evaluate_criteria_no_empty_test(kw, rx) ==
    IF flKeywords = <<>> /\ flPatterns = <<>> THEN TRUE
    ELSE IF Upper(flOperator) = "AND"
         THEN (IF flKeywords # <<>> THEN kw # <<>> ELSE TRUE)
              /\ (IF flPatterns # <<>> THEN rx # <<>> ELSE TRUE)
         ELSE TRUE

\* (variant: without the test for an empty configuration)
evaluate_criteria_no_open_default(kw, rx) ==
    IF kw \o rx = <<>> THEN FALSE
    ELSE IF Upper(flOperator) = "AND"
         THEN (IF flKeywords # <<>> THEN kw # <<>> ELSE TRUE)
              /\ (IF flPatterns # <<>> THEN rx # <<>> ELSE TRUE)
         ELSE kw \o rx # <<>>

\* evaluate_criteria
evaluate_criteria(kw, rx) ==
    IF flKeywords = <<>> /\ flPatterns = <<>> THEN TRUE
    ELSE IF kw \o rx = <<>> THEN FALSE
    ELSE IF Upper(flOperator) = "AND"
         THEN (IF flKeywords # <<>> THEN kw # <<>> ELSE TRUE)
              /\ (IF flPatterns # <<>> THEN rx # <<>> ELSE TRUE)
         ELSE kw \o rx # <<>>

Max(a, b) == IF a >= b THEN a ELSE b

\* is_relevant(message): blank content returns False before anything is
\* written; otherwise the matches are stored on the filter and the message
\* and the criteria are evaluated.
IsRelevant ==
    /\ flResult = "none"
    /\ LET str == ContentToCheck(flContent, flExtracted)
           kw == match_keywords(str)
           rx == match_regex(str)
       IN IF Blank(str)
          THEN /\ flResult' = "False"
               /\ UNCHANGED <<flMatched, flScore, flLast>>
          ELSE /\ flLast' = kw \o rx
               /\ flResult' = IF evaluate_criteria(kw, rx) THEN "True" ELSE "False"
               /\ flMatched' = kw \o rx
               /\ flScore' = [num |-> Len(kw \o rx),
                              den |-> Max(1, Len(flKeywords) + Len(flPatterns))]
    /\ UNCHANGED <<flKeywords, flPatterns, flOperator, flCompiled, flContent, flExtracted>>
    /\ UNCHANGED offFilter

\* A filter over any configuration, given any message.
InitFilter ==
    /\ InitCommands
    /\ RetryIdle
    /\ StoreIdle
    /\ LimiterIdle
    /\ StatusIdle
    /\ ReloadIdle
    /\ HealthIdle
    /\ ScanIdle
    /\ DiscoverIdle
    /\ StatsIdle
    /\ \E keywords \in SeqsUpTo(KeywordChoices, MaxKeywords),
          patterns \in SeqsUpTo(PatternChoices, MaxPatterns),
          operator \in Operators,
          content \in SeqsUpTo(Chars, MaxContent),
          extracted \in {<<>>, <<"B">>} :
            FilterWith(keywords, patterns, operator, content, extracted)

NextFilter == IsRelevant

SpecFilter == InitFilter /\ [][NextFilter]_vars

\* ------------------------------------------------------------ claims
InCommand(c) == pc[c] \in {"init", "mon", "gather"}

\* C1: between commands, the state reported by get_current_state and by
\* get_status is the state obtained by replaying the finished commands on the
\* transition table; and a command that did not raise returned success exactly
\* when the table allows it from the state it found, with the table's next
\* state (the unchanged state when it is invalid).
C1_StateFollowsTable ==
    /\ LockFree => /\ get_current_state = replay
                   /\ get_status.state = replay
    /\ (lastRes.cmd # "none" /\ ~lastRes.raised) =>
          /\ lastRes.success = TableValid(lastRes.cmd, lastRes.before)
          /\ lastRes.state = TableNext(lastRes.cmd, lastRes.before)
          /\ ~lastRes.success => lastRes.state = lastRes.before

\* start, pause, resume have run; the resume found PAUSED and returned RUNNING.
C1_Witness ==
    /\ LockFree
    /\ lastRes = Result("resume", "paused", TRUE, "running", FALSE)
    /\ replay = "running"

\* C2: when every start issued concurrently from STOPPED has returned, exactly
\* one of them has returned success and the state is RUNNING.
C2_ExactlyOneStart ==
    (batchIssued >= 1 /\ batchDone = batchIssued) =>
        /\ batchOk = 1
        /\ batchDone - batchOk = batchIssued - 1
        /\ state = "running"

\* All callers have issued start from STOPPED and all have returned.
C2_Witness ==
    /\ batchIssued = NumCallers
    /\ batchDone = NumCallers
    /\ batchOk = 1

\* C3: the commands are serialized: a command between its state check and its
\* state assignment holds the command lock, no other command is in that
\* section, the state it checked is still the state, and the state is always
\* the one the last finished command returned.
C3_Serialized ==
    /\ \A c \in Callers : InCommand(c) => lockHolder = c
    /\ \A c, d \in Callers : (InCommand(c) /\ InCommand(d)) => c = d
    /\ lockHolder # 0 => seen = state
    /\ lastRes.cmd # "none" => state = lastRes.state

\* A stop awaits the workers it cancelled while another command waits for the lock.
C3_Witness ==
    \E c, d \in Callers :
        /\ pc[c] = "gather"
        /\ cmd[c] = "stop"
        /\ pc[d] = "wait"
        /\ Accepts(cmd[d], state)

\* The errors with_retry raises once the retries are used up.
TerminalErrors == {"MaxRetriesExceededError", "NetworkConnectivityError"}

\* C4: a handler configured with max_retries = m (no override): an operation
\* that fails k <= m times with retryable errors and then succeeds is invoked
\* k+1 times and its value returned; one that keeps failing with retryable
\* errors is invoked m+1 times and a terminal error raised.
C4_RetryCount ==
    (/\ rtPc = "done"
     /\ rtArg = None
     /\ rtOutcome \notin {"SessionExpiredError", "original"}) =>
        IF rtPlan <= rtMax
        THEN rtOutcome = "returned" /\ rtCalls = rtPlan + 1
        ELSE rtOutcome \in TerminalErrors /\ rtCalls = rtMax + 1

\* The operation failed max_retries times, each time retried, and then succeeded.
C4_Witness ==
    /\ rtPc = "done"
    /\ rtArg = None
    /\ rtMax = MaxRetries
    /\ rtPlan = MaxRetries
    /\ rtOutcome = "returned"
    /\ rtCalls = MaxRetries + 1

\* C5: the store never holds two records with the same (id, group_id,
\* content); a store_message call whose key was stored when it was made does
\* not get past the duplicate check and returns False, whatever its stored_at.
C5_OneRecordPerKey ==
    /\ \A i, j \in 1..Len(stData) : Key(stData[i]) = Key(stData[j]) => i = j
    /\ \A c \in Storers : stDup[c] => stPc[c] = "lock"
    /\ stLast.dup => stLast.res = "False"

\* A record is stored and a second call with the same key and another
\* stored_at has returned False.
C5_Witness ==
    /\ stLast.dup
    /\ stLast.res = "False"
    /\ Len(stData) = 1
    /\ Key(stData[1]) = Key(stLast.msg)
    /\ stData[1].stored_at # stLast.msg.stored_at
    /\ stLast.msg.stored_at # "absent"

\* A path holds a complete JSON array.
Complete(f) == f.exists /\ f.complete

\* C6: once a persist has completed, at every instant the storage file or
\* its .backup holds a complete JSON array.
C6_CompleteCopyOnDisk == stGood => (Complete(stFile) \/ Complete(stBackup))

\* Admissions recorded within the window that ends now.
Admitted == Cardinality({i \in 1..Len(lmTimes) : lmTimes[i] > clock - Window})

\* C7: at every instant the admissions recorded within the preceding window
\* are at most requests_per_minute; a caller between its window check and its
\* recording holds the lock, is alone there, and finds the list as it left it.
C7_WindowBound ==
    /\ lmRpm >= 0 => Admitted <= lmRpm
    /\ \A c \in Acquirers : lmPc[c] = "sleep" => (lmLock = c /\ lmTimes = lmSeen[c])

\* An acquire that found the window full has waited and returned, and the
\* window is full again.
C7_Witness ==
    /\ lmLast = "waited"
    /\ lmRpm = MaxRpm
    /\ Admitted = lmRpm
    /\ \E c \in Acquirers : lmPc[c] = "lock"

\* No worker can take another step: each is done or hung.
\* The workers that have neither returned nor hung.
Live(ts) == Cardinality({i \in 1..Len(ts) : ~Done(ts[i]) /\ ~Hung(ts[i])})

\* No worker is inside handle_new_message.
Quiet == \A i \in 1..Len(tasks) : tasks[i].st \notin {"proc", "store"}

\* Worker i leaves handle_new_message in this step without being cancelled.
HandlingEnds(i) ==
    /\ i \in 1..Len(tasks)
    /\ i \in 1..Len(tasks')
    /\ tasks[i].st \in {"proc", "store"}
    /\ ~tasks[i].cancel
    /\ tasks'[i].st \notin {"proc", "store"}

\* C8 as stated: whatever error other than a cancellation ends the handling
\* of a message while monitoring is active, monitoring stays active and the
\* number of live workers is unchanged.  SessionExpiredError is such an error.
C8_AnyErrorContinues ==
    [][\A i \in 1..(2 * MaxWorkers * (MaxExpiries + 1)) :
          (monitoring /\ HandlingEnds(i))
             => (monitoring' /\ Live(tasks') = Live(tasks))]_vars

\* C8, with SessionExpiredError set apart: a handling that ends for any
\* reason but a cancellation or an expired session (the processor yields
\* nothing, an error, an irrelevant or a stored message) leaves monitoring
\* active and puts its worker back on the queue; while monitoring stays
\* active and no session has expired the number of live workers is unchanged;
\* and once a handling has failed, the messages on the queue are eventually
\* all dequeued and handled unless monitoring ends.
C8_FailureContinues ==
    /\ [][\A i \in 1..(2 * MaxWorkers * (MaxExpiries + 1)) :
            (monitoring /\ HandlingEnds(i) /\ expiries' = expiries)
               => (monitoring' /\ tasks'[i].st = "wait")]_vars
    /\ [][(monitoring /\ monitoring' /\ expiries' = 0)
            => Live(tasks') = Live(tasks)]_vars
    /\ (failedAt > 0 /\ monitoring /\ queue > 0 /\ expiries = 0)
          ~> (~monitoring \/ (queue = 0 /\ Quiet))

\* A handling failed, a message was delivered after it, and every message has
\* been handled with monitoring active and all the workers alive.
C8_Witness ==
    /\ failedAt > 0
    /\ delivered > failedAt
    /\ expiries = 0
    /\ monitoring
    /\ queue = 0
    /\ Quiet
    /\ Live(tasks) = NumWorkers(groups)

WorkersSettled == \A i \in 1..Len(tasks) : Done(tasks[i]) \/ Hung(tasks[i])

\* C9: every new-message event is put on the queue at most once: the queue
\* never holds more messages than events were delivered.
C9_EnqueuedAtMostOnce == queue <= delivered

\* C10: once a session expiry was met while handling a message, monitoring is
\* off; and when the workers have settled and no command has returned since,
\* every worker has terminated and the CommandInterface state is ERROR.
C10_ExpiryStopsAndErrors ==
    sinceExpiry =>
        /\ ~monitoring
        /\ WorkersSettled =>
              /\ \A i \in 1..Len(tasks) : Done(tasks[i])
              /\ state = "error"

\* C11: a start command whose execution raised has returned success=false,
\* with the state ERROR and last_error holding that command's error message.
C11_StartErrorRecorded ==
    (lastRes.cmd = "start" /\ lastRes.raised)
       => /\ ~lastRes.success
          /\ lastRes.state = "error"
          /\ state = "error"
          /\ lastError = "start"

\* The last command to return was a start that raised.
C11_Witness == lastRes.cmd = "start" /\ lastRes.raised /\ state = "error"

\* C12: a step taken in ERROR leaves the state ERROR unless it is the return
\* of a successful stop, which leaves it STOPPED; a start, pause or resume
\* that found the state ERROR has returned success=false with the state ERROR;
\* and a start succeeds from STOPPED only.
C12_ErrorUntilStop ==
    /\ [][state = "error"
            => \/ state' = "error"
               \/ /\ state' = "stopped"
                  /\ lastRes'.cmd = "stop"
                  /\ lastRes'.success]_vars
    /\ [](lastRes.before = "error" /\ lastRes.cmd \in {"start", "pause", "resume"}
            => ~lastRes.success /\ lastRes.state = "error" /\ state = "error")
    /\ [](lastRes.cmd = "start" /\ lastRes.success => lastRes.before = "stopped")

\* A start was refused in ERROR.
C12_Witness ==
    /\ state = "error"
    /\ lastRes.cmd = "start"
    /\ lastRes.before = "error"
    /\ ~lastRes.success

\* C13: the state becomes ERROR only at the return of a start command that
\* raised.
C13_ErrorOnlyFromStart ==
    [][(state # "error" /\ state' = "error")
         => (lastRes'.cmd = "start" /\ lastRes'.raised)]_vars

\* C14: whatever a command's operations raised, the caller of the last
\* command got a result dict, and its state field is the CommandInterface
\* state the command left.
C14_AlwaysAResult ==
    lastRes.cmd # "none"
       => /\ lastRes.state \in {"stopped", "running", "paused", "error"}
          /\ lastRes.state = state
          /\ lastRes.raised => ~lastRes.success

\* A start raised and left ERROR; the stop that followed, with nothing
\* monitored and no handler ever registered, returned success.
C14_Witness ==
    /\ lastRes.cmd = "stop"
    /\ lastRes.before = "error"
    /\ lastRes.success
    /\ lastRes.state = state
    /\ ~monitoring
    /\ handlers = 0

\* C15: a get_status call never returns while a command is inside the
\* command lock.
C15_StatusWaitsForCommand == lastStatus.called => ~lastStatus.busy

\* The error classes with_retry does not retry.
FatalKinds == {"session", "auth", "perm"}

\* C16: the step in which the operation raises a session, credential or
\* permission error ends the call: with_retry does not sleep or invoke the
\* operation again, and raises SessionExpiredError for a session error and the
\* original error otherwise; when that error was the operation's first, the
\* operation was invoked once in total and with_retry never slept.
C16_FatalNotRetried ==
    rtLastKind \in FatalKinds
       => /\ rtPc = "done"
          /\ rtOutcome = (IF rtLastKind = "session" THEN "SessionExpiredError" ELSE "original")
          /\ rtCalls = Len(rtSleeps) + 1
          /\ rtAttempt = 0 => (rtCalls = 1 /\ rtSleeps = <<>>)

\* The handler allows retries and the operation, planned to keep failing,
\* raised a session error on its first invocation.
C16_Witness ==
    /\ rtLastKind = "session"
    /\ rtAttempt = 0
    /\ Retries(rtArg, rtMax) = MaxRetries
    /\ rtPlan > MaxRetries
    /\ rtCalls = 1
    /\ rtOutcome = "SessionExpiredError"

\* C17: a with_retry call ends by returning the operation's value or raising
\* SessionExpiredError, the original credential or permission error, or
\* MaxRetriesExceededError, and nothing else.
C17_FourOutcomes ==
    rtPc = "done"
       => rtOutcome \in {"returned", "SessionExpiredError", "original",
                         "MaxRetriesExceededError"}

\* C18: with the calls made one after the other, a store_message call that
\* returned did return True exactly when its record was not stored when the
\* call was made, and then the record is stored; it returned False exactly
\* when the record was stored already.
C18_TrueIffNew ==
    (~stOverlap /\ stLast.res \in {"True", "False"})
       => /\ (stLast.res = "True") = ~stLast.dup
          /\ stLast.res = "True" => Stored(Key(stLast.msg))

\* C19: check_duplicate answers True only for a record whose id, group_id and
\* content are those of a record in the store.
C19_DistinctKeysNotDuplicates ==
    \A r \in Messages : check_duplicate(r) => Stored(Key(r))

\* The field values of a stored record as a reload is to give them back:
\* a datetime as its ISO string, everything else as it is.
AsReloaded(r) ==
    IF r.stored_at \in Datetimes
    THEN [r EXCEPT !.stored_at = IsoFormat(r.stored_at)]
    ELSE r

\* Every store_message call so far has stored its record and the last one
\* returned True; no call is in progress.
AllStored ==
    /\ stCalls >= 1
    /\ Len(stData) = stCalls
    /\ stLast.res = "True"
    /\ \A c \in Storers : stPc[c] = "idle"

\* C20: initialize() of a fresh manager, completing when N records with
\* distinct keys have been stored, leaves it with the same N records in the
\* same order with the same field values (a datetime as its ISO string), and
\* its duplicate check rejects each of them.
C20_ReloadReproduces ==
    [][(ldPc = "new" /\ ldPc' = "ready" /\ AllStored)
         => /\ Len(ldData') = Len(stData)
            /\ \A i \in 1..Len(stData) :
                  /\ i <= Len(ldData') => ldData'[i] = AsReloaded(stData[i])
                  /\ generate_content_hash(stData[i]) \in ldHashes']_vars

\* The states of a call between its duplicate check and the end of its persist.
InCycle(c) == stPc[c] \in {"rename", "write", "unlink", "psleep", "restore"}

\* No store_message call is in progress.
StoreQuiet == \A c \in Storers : stPc[c] = "idle"

\* C21: a call inside its check-append-hash-persist cycle holds the lock, so
\* no two calls are inside it together.  When all calls have finished, none
\* of them cancelled, the
\* file holds the JSON text of the in-memory list, no two records have the
\* same key, the calls with a given key returned True as often as the list
\* holds a record with it, and if all calls had one and the same key exactly
\* one of them returned True.
C21_StoreCyclesSerialized ==
    /\ \A c \in Storers : InCycle(c) => stLock = c
    /\ (StoreQuiet /\ ~stHist.cancelled /\ stCalls >= 1)
          => /\ stFile = FileOf(JsonDump(stData), TRUE)
             /\ \A i, j \in 1..Len(stData) : Key(stData[i]) = Key(stData[j]) => i = j
             /\ \A k \in Keys :
                   stHist.trues[k] = Cardinality({i \in 1..Len(stData) : Key(stData[i]) = k})
             /\ \A k \in Keys : stHist.asked = {k} => stHist.trues[k] = 1

\* The status the consecutive-failure count stands for.
StatusOf(c) ==
    IF c < 5 THEN "healthy" ELSE IF c < 10 THEN "degraded" ELSE "unhealthy"

\* C22: consecutive_failures is the number of failures recorded since the last
\* success, the health status is healthy below 5 of them, degraded from 5 to
\* 9 and unhealthy from 10 on, and a record_success leaves the count at 0 and
\* the status healthy whatever status it found.
C22_StatusFollowsFailures ==
    /\ hmFailures = hmRun
    /\ hmStatus = StatusOf(hmRun)
    /\ hmCall.op = "record_success" => (hmFailures = 0 /\ hmStatus = "healthy")

\* A record_success has found the monitor unhealthy and left it healthy.
C22_Witness ==
    /\ hmCall = [op |-> "record_success", found |-> "unhealthy"]
    /\ hmStatus = "healthy"
    /\ hmFailures = 0

\* The instant at which the window caller c found full has a free place: the
\* length of the window after its oldest admission.
FreeAt(c) == Oldest(lmSeen[c]) + Window

\* C23: an acquire that returns at once found fewer than requests_per_minute
\* admissions in the window; one that found the window full returns no
\* earlier than one window length after the oldest admission it found, and
\* from that instant on it does return.
C23_FullWindowWaits ==
    /\ [][\A c \in Acquirers :
            (lmPc[c] = "lock" /\ lmPc'[c] = "idle" /\ lmLast' = "direct")
               => Admitted < lmRpm]_vars
    /\ [][\A c \in Acquirers :
            (lmPc[c] = "sleep" /\ lmPc'[c] = "idle") => clock >= FreeAt(c)]_vars
    /\ \A c \in Acquirers :
          (lmPc[c] = "sleep" /\ clock >= FreeAt(c)) ~> (lmPc[c] = "idle")

\* An acquire that found the window full has returned at the very instant
\* the oldest admission left the window.
C23_Witness ==
    /\ lmLast = "waited"
    /\ lmRpm >= 1
    /\ Len(lmTimes) = lmRpm
    /\ lmTimes[Len(lmTimes)] = clock
    /\ clock = Window
    /\ \A c \in Acquirers : lmPc[c] = "idle"

\* The content is_relevant looks at is not blank.
NonBlank == ~Blank(ContentToCheck(flContent, flExtracted))

\* Some configured keyword occurs in the content, case ignored.
KeywordHit ==
    \E i \in 1..Len(flKeywords) :
        Contains(Lower(flKeywords[i]), Lower(ContentToCheck(flContent, flExtracted)))

\* Some configured pattern finds a place in the content.
PatternHit ==
    \E i \in 1..Len(flPatterns) :
        Compiles(flPatterns[i]) /\ Search(flPatterns[i], ContentToCheck(flContent, flExtracted))

Configured == flKeywords # <<>> \/ flPatterns # <<>>

IsAnd == flOperator \in {"AND", "and"}

\* The answer by operator: under OR any hit, under AND a hit of every kind
\* of criteria that is configured.
ByOperator ==
    IF IsAnd
    THEN (flKeywords = <<>> \/ KeywordHit) /\ (flPatterns = <<>> \/ PatternHit)
    ELSE KeywordHit \/ PatternHit

\* C24 as stated: for non-blank content is_relevant answers False when
\* criteria are configured and nothing matches, and otherwise by operator.
C24_ByOperatorAlways ==
    (flResult # "none" /\ NonBlank)
       => (flResult = "True")
            = (IF Configured /\ ~KeywordHit /\ ~PatternHit THEN FALSE ELSE ByOperator)

\* C24: for non-blank content is_relevant answers True when no criteria are
\* configured, False when criteria are configured and nothing matches, and
\* otherwise by operator: under OR True iff a keyword or a pattern matches,
\* under AND True iff a keyword matches or none is configured and a pattern
\* matches or none is configured.
C24_ByOperator ==
    (flResult # "none" /\ NonBlank)
       => (flResult = "True")
            = (IF ~Configured THEN TRUE
               ELSE IF ~KeywordHit /\ ~PatternHit THEN FALSE
               ELSE ByOperator)

\* Under AND with keywords and patterns configured, a keyword but no pattern
\* matched and the answer was False.
C24_Witness ==
    /\ flResult = "False"
    /\ NonBlank
    /\ IsAnd
    /\ flKeywords # <<>>
    /\ flPatterns # <<>>
    /\ KeywordHit
    /\ ~PatternHit

\* The keys of the records of a list.
KeysOf(list) == {Key(list[i]) : i \in 1..Len(list)}

\* The keys of the records the storage file holds.
DiskKeys == IF Complete(stFile) THEN KeysOf(JsonLoad(stFile.list)) ELSE {}

\* C25: when every call has returned, whether or not its writes failed, the
\* in-memory list, the hash set and the storage file hold the same records,
\* and a call is answered False only for a record the file holds.
C25_NothingLeftBehind ==
    (StoreQuiet /\ ~stHist.cancelled)
       => /\ KeysOf(stData) = DiskKeys
          /\ stHashes = {generate_content_hash(stData[i]) : i \in 1..Len(stData)}
          /\ stLast.res = "False" =>
                \E k \in DiskKeys :
                    generate_content_hash([id |-> k[1], group_id |-> k[2], content |-> k[3]])
                      = generate_content_hash(stLast.msg)

\* No command is between taking and releasing the command lock.
NoCommand == lockHolder = 0

\* C26: with no command in progress and the state RUNNING, the scanner is
\* monitoring and at least one of its workers is alive.
C26_RunningMeansMonitoring ==
    (NoCommand /\ state = "running") => (monitoring /\ Live(tasks) >= 1)

\* C27: with no command in progress and the state STOPPED or PAUSED, the
\* scanner is not monitoring and no worker task is alive.
C27_StoppedMeansIdle ==
    (NoCommand /\ state \in {"stopped", "paused"})
       => (~monitoring /\ \A i \in 1..Len(tasks) : Done(tasks[i]))

\* No stop_monitoring call is in progress.
NoStopInProgress == \A c \in Callers : pc[c] # "gather"

\* C28: while the scanner is not monitoring and no stop_monitoring is still
\* in progress, the message queue is empty (session expiry aside, where
\* stop_monitoring does not return).
C28_QueueEmptyWhenIdle ==
    (~monitoring /\ NoStopInProgress /\ expiries = 0) => queue = 0

\* C29: a with_retry call given max_retries = r explicitly, r = 0 included,
\* whose operation fails with retryable errors on more than r invocations
\* invokes it exactly r + 1 times and then raises a terminal error.
C29_ExplicitRetriesUsed ==
    (/\ rtPc = "done"
     /\ rtArg.given
     /\ rtPlan > rtArg.value
     /\ rtOutcome \notin {"SessionExpiredError", "original"})
       => (rtCalls = rtArg.value + 1 /\ rtOutcome \in TerminalErrors)

\* What stop_monitoring is to leave behind.
StoppedClean == ~monitoring' /\ tasks' = <<>> /\ queue' = 0

Alive(ts) == Cardinality({i \in 1..Len(ts) : ~Done(ts[i])})

\* C31: a start_monitoring call made while monitoring or with no discovered
\* group changes neither the flag, the subscriptions nor the tasks; any other
\* call sets the flag, adds one subscription and min(3, groups) waiting
\* workers; and at most 3 worker tasks are alive at any time.
C31_StartSpawnsAtMostThree ==
    /\ [][smStarts' = smStarts + 1
            => IF monitoring \/ groups = 0
               THEN UNCHANGED <<monitoring, handlers, tasks>>
               ELSE /\ monitoring'
                    /\ handlers' = handlers + 1
                    /\ Len(tasks') = Len(tasks) + (IF groups < 3 THEN groups ELSE 3)
                    /\ \A i \in 1..Len(tasks) : tasks'[i] = tasks[i]
                    /\ \A i \in (Len(tasks) + 1)..Len(tasks') : tasks'[i].st = "wait"]_vars
    /\ [][Alive(tasks') <= 3]_vars

\* C32: once a stop_monitoring call has cleared the monitoring flag, by a
\* direct caller or by a worker, whatever the workers are doing, the call
\* eventually returns: every worker has terminated and the task list is
\* cleared.
C32_StopEventuallyReturns ==
    (~monitoring /\ tasks # <<>>) ~> (tasks = <<>> /\ smPc = "idle")

\* C33: when the last write attempt of a persist that found a storage file
\* has failed and the error leaves _persist_with_retry, the storage file
\* exists with exactly the content it had when the persist began.
C33_RestoredAfterFailedPersist ==
    [][\A c \in Storers :
          (stPc[c] = "restore" /\ stPc'[c] # "restore" /\ stHist.before.exists)
             => stFile' = stHist.before]_vars

\* C34: when the timeout of discover_groups strikes, the call returns the
\* groups the running discovery has found so far if there is at least one,
\* and raises only if there is none.
C34_TimeoutReturnsFoundSoFar ==
    [][(dgPc # "idle" /\ dgPc' = "idle" /\ dgResult'.by = "timeout")
         => IF dgLocal # <<>>
            THEN dgResult'.kind = "list" /\ dgResult'.list = dgLocal
            ELSE dgResult'.kind = "ValueError"]_vars

\* C35: a with_retry call that has ended has appended to the operation log
\* exactly one entry for each invocation of the operation.
C35_OneLogEntryPerInvocation == rtPc = "done" => Len(rtLog) = rtCalls

\* C39: a sleep of with_retry lies between two invocations: the sleep after
\* attempt a lasts seconds * flood_wait_multiplier if the attempt ended in a
\* rate-limit error, and otherwise base_delay * 2^a in exponential mode and
\* base_delay in linear mode; a call that has ended has slept once less than
\* it invoked the operation, so never after its final attempt.
C39_SleepDurations ==
    /\ rtPc = "sleep"
          => /\ rtDelay = IF rtLastKind = "flood"
                          THEN rtSecs * FloodWaitMultiplier
                          ELSE IF rtExp THEN BaseDelay * Pow2(rtAttempt) ELSE BaseDelay
             /\ rtAttempt < Retries(rtArg, rtMax)
             /\ rtCalls = rtAttempt + 1
    /\ \A i \in 1..Len(rtSleeps) : rtSleeps[i].after = i - 1
    /\ rtPc = "done" => Len(rtSleeps) = rtCalls - 1

C39_Witness ==
    /\ rtPc = "done"
    /\ rtOutcome = "MaxRetriesExceededError"
    /\ rtLastKind = "flood"
    /\ rtExp
    /\ Len(rtSleeps) = 2
    /\ rtSleeps[1].delay = 4 * FloodWaitMultiplier
    /\ rtSleeps[2].delay = BaseDelay * 2

\* C36: a step changes the statistics only by one update_message_stats call,
\* which adds 1 to messages_processed and 1 to relevant_messages_found exactly
\* when the message goes on to be stored as relevant; and the calls made
\* never outnumber the messages the client delivered: each message is
\* counted once.
C36_StatsOncePerMessage ==
    /\ [][IF msCalls' = msCalls
            THEN UNCHANGED <<msProcessed, msRelevant, msGroup>>
            ELSE /\ msCalls' = msCalls + 1
                 /\ msProcessed' = msProcessed + 1
                 /\ msRelevant' = msRelevant
                                   + (IF \E i \in 1..Len(tasks) :
                                            tasks[i].st = "proc" /\ tasks'[i].st = "store"
                                      THEN 1 ELSE 0)]_vars
    /\ [][msCalls' <= delivered']_vars

\* The sum of the messages_processed counts of the groups in S.
RECURSIVE SumProcessed(_)
SumProcessed(S) ==
    IF S = {} THEN 0
    ELSE LET g == CHOOSE h \in S : TRUE
         IN  msGroup[g].messages_processed + SumProcessed(S \ {g})

\* The counters agree: relevant never above processed, in total and for each
\* group, and the total is the sum of the groups' counts.
StatsConsistent ==
    /\ msRelevant <= msProcessed
    /\ \A g \in DOMAIN msGroup :
          msGroup[g].relevant_messages <= msGroup[g].messages_processed
    /\ msProcessed = SumProcessed(DOMAIN msGroup)

\* C40: after every step of the commands and of update_message_stats the
\* counters agree (relevant <= processed in total and per group, the total the
\* sum of the groups' counts), and no step, of a start or stop among them,
\* decreases a counter or drops a group.
C40_StatsInvariants ==
    [][/\ StatsConsistent'
       /\ msProcessed' >= msProcessed
       /\ msRelevant' >= msRelevant
       /\ \A g \in DOMAIN msGroup :
             /\ g \in DOMAIN msGroup'
             /\ msGroup'[g].messages_processed >= msGroup[g].messages_processed
             /\ msGroup'[g].relevant_messages >= msGroup[g].relevant_messages]_vars

C40_Witness ==
    /\ msProcessed = 3
    /\ msRelevant = 1
    /\ DOMAIN msGroup = {1, 2}
    /\ msGroup[2].messages_processed = 2
    /\ state = "running"
    /\ lastRes.cmd = "start"
    /\ lastRes.success
    /\ handlers = 2

\* C37: a stop or pause command that ends because stop_monitoring raised
\* returns success = false with the state it found, leaves the state as it
\* was and records the error in last_error.
C37_StopFailureKeepsState ==
    [][\A c \in Callers :
          (/\ cmd[c] \in {"stop", "pause"}
           /\ pc[c] # "idle"
           /\ pc'[c] = "idle"
           /\ lastRes'.raised)
             => /\ state' = state
                /\ lastError' = cmd[c]
                /\ lastRes'.cmd = cmd[c]
                /\ ~lastRes'.success
                /\ lastRes'.state = state]_vars

C37_Witness ==
    /\ lastRes.cmd \in {"stop", "pause"}
    /\ lastRes.raised
    /\ ~lastRes.success
    /\ lastRes.state = "running"
    /\ state = "running"
    /\ lastError = lastRes.cmd
    /\ ~monitoring

\* C38 as stated: with no keyword and no pattern configured is_relevant
\* answers True for every message, whatever its content and extracted text.
C38_OpenFilterAlways == (flResult # "none" /\ ~Configured) => flResult = "True"

\* C38: with no keyword and no pattern configured is_relevant answers True
\* for every message whose content and extracted text are not both blank.
C38_OpenFilter == (flResult # "none" /\ ~Configured /\ NonBlank) => flResult = "True"

\* No criteria, an empty content and an extracted text: the answer was True.
C38_Witness ==
    /\ flResult = "True"
    /\ ~Configured
    /\ flContent = <<>>
    /\ flExtracted # <<>>
====
